---------------------------- MODULE Spec2Model ----------------------------
(***************************************************************************)
(* Register-mapped device protocol of the Pico stepper controller          *)
(* firmware: the main loop of main.c, the frame protocol engine of         *)
(* uart_protocol.c (handle_uart_rx), and the register-map consumers of     *)
(* motor_control.c and switches.c.                                         *)
(*                                                                         *)
(* The firmware is one thread.  pc is its position: the four calls of the  *)
(* main loop and, inside handle_uart_rx, the places where it blocks in     *)
(* uart_read_blocking or runs one of its loops.  The host and the wall     *)
(* clock are the environment.                                              *)
(***************************************************************************)
EXTENDS Integers, Sequences, FiniteSets, TLC

(***************************************************************************)
(* Program constants.                                                      *)
(***************************************************************************)
REGISTER_MAP_SIZE == 46
CMD_READ == 1
CMD_WRITE == 2
MAX_PAYLOAD == 16
BUF_SIZE == 17
NACK_CODE == 255
ACK_CODE == 0
REG_STATUS == 0
REG_SWITCH_STATUS == 1
REG_MOTOR1_CONTROL == 16
REG_MOTOR1_TARGET_POS_L == 17
REG_MOTOR1_CURRENT_POS_L == 21
REG_MOTOR1_MAX_SPEED_L == 25
REG_MOTOR1_ACCEL_L == 27
REG_MOTOR2_CONTROL == 32
REG_MOTOR2_TARGET_POS_L == 33
REG_MOTOR2_CURRENT_POS_L == 37
REG_MOTOR2_MAX_SPEED_L == 41
REG_MOTOR2_ACCEL_L == 43
REG_CHECK_INTERVAL_US == 10000
DEBOUNCE_DELAY_US == 5000

(***************************************************************************)
(* Bounds of the model.                                                    *)
(***************************************************************************)
\* frames the host sends in one run of the protocol specification
MaxFrames == 2
\* frames the host sends in one run of the whole-system specification
MaxSysFrames == 2
\* the wall clock stops advancing past this many microseconds
MaxTime == 10002
\* level changes of the switch pins in one run
MaxPinChanges == 1
\* frames the host sends in one run of the corrupted-frame specification
MaxFlipStream == 2
\* frames the host sends in one run of the target-position scenario
MaxScenarioFrames == 3
\* frames the host sends in one run of the zero-length specification
MaxZeroLenFrames == 1
\* longest input of calculate_checksum in the checksum specification
MaxChecksumLen == 3
\* frames the host sends in the switch specification
MaxSwitchFrames == 1
\* times a switch is pressed or released in the switch specification
MaxSwitchPinChanges == 2
\* frames the host sends in the move specification
MaxMoveFrames == 2
\* frames the host sends in the motor command specification
MaxMotorFrames == 2

Byte == 0..255
RegAddrs == 0..(REGISTER_MAP_SIZE - 1)

(***************************************************************************)
(* Fixed-width arithmetic.                                                 *)
(***************************************************************************)
RECURSIVE XorBits(_, _, _)
XorBits(a, b, n) ==
    IF n = 0 THEN 0
    ELSE (((a % 2) + (b % 2)) % 2) + 2 * XorBits(a \div 2, b \div 2, n - 1)

\* the C operator ^ on two uint8_t values.  The operands are bound as x and
\* y so that each is evaluated once.
Xor(a, b) == CHOOSE v \in {XorBits(x, y, 8) : x \in {a}, y \in {b}} : TRUE

RECURSIVE Pow2(_)
Pow2(k) == IF k = 0 THEN 1 ELSE 2 * Pow2(k - 1)

\* (v & (1 << k)) != 0
BitIsSet(v, k) == (v \div Pow2(k)) % 2 = 1
\* v | (1 << k) on a uint8_t
SetBit(v, k) == IF BitIsSet(v, k) THEN v ELSE v + Pow2(k)
\* v & ~(1 << k) on a uint8_t
ClearBit(v, k) == IF BitIsSet(v, k) THEN v - Pow2(k) ELSE v

\* a - b on uint32_t.  The clock of the model counts up from boot and stays
\* below MaxTime, so a >= b at every use and the subtraction never wraps.
Sub32(a, b) == a - b

(***************************************************************************)
(* calculate_checksum: XOR fold of data[0..len-1], data a sequence.        *)
(***************************************************************************)
\* faulty variant of calculate_checksum: the bytes are added up modulo 256
RECURSIVE calculate_checksum_Sum(_)
calculate_checksum_Sum(data) ==
    IF data = <<>> THEN 0
    ELSE (Head(data) + calculate_checksum_Sum(Tail(data))) % 256

RECURSIVE ChecksumFrom(_, _, _)
ChecksumFrom(data, i, acc) ==
    IF i > Len(data) THEN acc
    ELSE ChecksumFrom(data, i + 1, Xor(acc, data[i]))

calculate_checksum(data) == ChecksumFrom(data, 1, 0)

(***************************************************************************)
(* Little-endian register codecs of registers.h.  A 32-bit value is held   *)
(* as the integer with the same bit pattern in two's complement (the value *)
(* it has as the int32_t fields of motor_state_t), so the top byte counts  *)
(* as signed on decoding; \div and % round down, which yields the two's    *)
(* complement bytes of a negative value on encoding.                       *)
(***************************************************************************)
SignedByte(b) == IF b >= 128 THEN b - 256 ELSE b

READ_U16_REGISTER(regs, addr) == regs[addr] + 256 * regs[addr + 1]

READ_U32_REGISTER(regs, addr) ==
    regs[addr] + 256 * regs[addr + 1] + 65536 * regs[addr + 2]
      + 16777216 * SignedByte(regs[addr + 3])

WRITE_U16_REGISTER(regs, addr, value) ==
    [regs EXCEPT ![addr] = value % 256,
                 ![addr + 1] = (value \div 256) % 256]

\* faulty variant of WRITE_U32_REGISTER: the most significant byte comes first
WRITE_U32_REGISTER_BigEndian(regs, addr, value) ==
    [regs EXCEPT ![addr] = (value \div 16777216) % 256,
                 ![addr + 1] = (value \div 65536) % 256,
                 ![addr + 2] = (value \div 256) % 256,
                 ![addr + 3] = value % 256]

WRITE_U32_REGISTER(regs, addr, value) ==
    [regs EXCEPT ![addr] = value % 256,
                 ![addr + 1] = (value \div 256) % 256,
                 ![addr + 2] = (value \div 65536) % 256,
                 ![addr + 3] = (value \div 16777216) % 256]

(***************************************************************************)
(* State.                                                                  *)
(***************************************************************************)
VARIABLES
    registers,            \* main.c: virtual_registers[REGISTER_MAP_SIZE]
    pc,                   \* position of the one firmware thread
    header,               \* handle_uart_rx: uint8_t header[3]
    cmd_type,             \* handle_uart_rx: header[0] as copied at line 28
    reg_addr,             \* handle_uart_rx: header[1] as copied at line 29
    data_len,             \* handle_uart_rx: header[2] as copied at line 30
    data_buffer,          \* handle_uart_rx: uint8_t data_buffer[16 + 1]
    discard_buf,          \* handle_uart_rx: uint8_t discard_buf[16 + 1]
    checksum_rx,          \* handle_uart_rx: the received checksum byte
    response,             \* handle_uart_rx: the read response being built
    i,                    \* handle_uart_rx: size_t i of its two copy loops
    rd,                   \* the uart_read_blocking call in progress
    motor_state,          \* motor_control.c: motor_state[2]
    last_reg_check_time,  \* motor_control.c
    switch_state,         \* switches.c: switch_state[2]
    rx,                   \* bytes the host has sent and the UART not yet read
    tx,                   \* every byte the firmware has written to the UART
    now,                  \* the microsecond clock behind time_us_32()
    gpio,                 \* level of the two switch pins (TRUE = high)
    host,                 \* the environment's budget: frames sent, pin changes
    inv,                  \* history of the current handle_uart_rx invocation
    prev,                 \* history of the last invocation that consumed bytes
    log                   \* history of the run: frames sent, responses emitted

engineVars == <<header, cmd_type, reg_addr, data_len, data_buffer,
                discard_buf, checksum_rx, response, i, rd>>
consumerVars == <<motor_state, last_reg_check_time, switch_state>>
envVars == <<now, gpio>>
vars == <<registers, pc, engineVars, consumerVars, rx, tx, envVars, host,
          inv, prev, log>>

\* positions inside handle_uart_rx
EnginePcs == {"read", "validate", "rd_verify", "rd_copy", "rd_send",
              "wr_cksum", "wr_verify", "wr_store", "wr_ack", "wr_nack"}
\* positions of the main loop, each about to make the call it names
LoopPcs == {"uart", "motor_ctl", "switch", "motor_status"}

NoRead == [dst |-> "none", len |-> 0, idx |-> 0, ret |-> "none"]
ZeroHeader == [k \in 0..2 |-> 0]
ZeroBuf == [k \in 0..(BUF_SIZE - 1) |-> 0]

\* the history of an invocation that has just been entered
FreshInv(regs, at, readable) ==
    [regs0 |-> regs,       \* the map as the invocation found it
     readable |-> readable,  \* whether uart_is_readable held on entry
     hdrAt |-> at,         \* stream offset of the first byte it may consume
     consumed |-> 0,       \* bytes it has consumed
     waitedAt |-> {},      \* its byte counts when it stood waiting for bytes
     out |-> <<>>,         \* bytes it has emitted
     ev |-> <<>>,          \* its validation, store and emission events
     acc |-> {},           \* map indices it has read or written
     bufacc |-> {}]        \* indices of data_buffer / discard_buf it stored to

\* the history of the run at boot, the pins reading as in pins
FreshLog(pins) ==
    [frames |-> <<>>,    \* what the host sent: offset and bytes
     answers |-> <<>>,   \* what the engine answered, by header offset
     starts |-> {},      \* offsets at which a header read began
     nread |-> 0,        \* bytes the engine has consumed
     level |-> pins,     \* the last level gpio_get returned, per switch
     since |-> [s \in 0..1 |-> 0],  \* time of the first reading of the run
                                    \* of equal readings that level ends
     looped |-> FALSE]   \* whether a main-loop iteration has completed

NoPrev == [cmd |-> 0, addr |-> 0, len |-> 0, data |-> <<>>, accepted |-> FALSE]

\* the bytes data_buffer[0..n-1] as a sequence
BufSeq(buf, n) == [k \in 1..n |-> buf[k - 1]]
\* header[0..2] as a sequence
HeaderSeq(h) == <<h[0], h[1], h[2]>>

(***************************************************************************)
(* handle_uart_rx: the decisions of the protocol engine.                   *)
(***************************************************************************)
\* faulty variant of AddrRangeInvalid: the end of the range is not tested
AddrRangeInvalid_NoSum(addr, len) == addr >= REGISTER_MAP_SIZE

\* faulty variant of AddrRangeInvalid: the end of the range may lie one cell
\* past the map
AddrRangeInvalid_OffByOne(addr, len) ==
    addr >= REGISTER_MAP_SIZE \/ (addr + len) > REGISTER_MAP_SIZE + 1

\* line 34: reg_addr >= REGISTER_MAP_SIZE || (reg_addr + data_len) >
\* REGISTER_MAP_SIZE; both operands are promoted to int, the sum never wraps
AddrRangeInvalid(addr, len) ==
    addr >= REGISTER_MAP_SIZE \/ (addr + len) > REGISTER_MAP_SIZE

\* line 49: data_len > 16
LengthTooLarge(len) == len > MAX_PAYLOAD

\* faulty variant of DiscardLength: the checksum byte is left on the line
DiscardLength_NoChecksum(len) == len

\* line 43: data_len + 1, the data and the checksum of a rejected write
DiscardLength(len) == len + 1

\* faulty variant of ReadChecksumCalc: the length byte is left out
ReadChecksumCalc_NoLen(h) == Xor(h[0], h[1])

\* line 72: calculate_checksum(header, 3)
ReadChecksumCalc(h) == calculate_checksum(HeaderSeq(h))

\* faulty variant of WriteChecksumCalc: the received byte is taken for the
\* calculated one
WriteChecksumCalc_Trusting(h, buf, len) == checksum_rx

\* lines 116-119: header[0] ^ header[1] ^ header[2], then ^ the data's fold
WriteChecksumCalc(h, buf, len) ==
    LET c == Xor(Xor(h[0], h[1]), h[2])
    IN  IF len > 0 THEN Xor(calculate_checksum(BufSeq(buf, len)), c) ELSE c

\* faulty variant of NackResponse: the checksum leaves the NACK code out
NackResponse_PlainAddr(addr) == <<addr, NACK_CODE, addr>>

\* lines 124-127: [ADDR, 0xFF, CHECKSUM]
NackResponse(addr) ==
    <<addr, NACK_CODE, calculate_checksum(<<addr, NACK_CODE>>)>>

\* faulty variant of AckResponse: the status byte stands in the checksum's
\* place
AckResponse_NoChecksum(addr) == <<addr, ACK_CODE, ACK_CODE>>

\* lines 145-148: [ADDR, 0x00, CHECKSUM]
AckResponse(addr) ==
    <<addr, ACK_CODE, calculate_checksum(<<addr, ACK_CODE>>)>>

\* faulty variant of SealResponse: the checksum covers the data bytes only
SealResponse_DataOnly(resp) ==
    Append(resp, calculate_checksum(SubSeq(resp, 3, Len(resp))))

\* line 93: response[2 + data_len] = calculate_checksum(response, 2 + data_len)
SealResponse(resp) == Append(resp, calculate_checksum(resp))

\* faulty variant of StoreCell: the store lands one cell further on
StoreCell_OffByOne(regs, idx, b) ==
    IF idx + 1 \in DOMAIN regs THEN [regs EXCEPT ![idx + 1] = b] ELSE regs

\* line 138: registers[reg_addr + i] = data_buffer[i].  An index outside the
\* array is undefined behaviour; no outcome is modelled for it because no
\* reachable state has one (RegisterAccessInBounds).
StoreCell(regs, idx, b) ==
    IF idx \in DOMAIN regs THEN [regs EXCEPT ![idx] = b] ELSE regs

\* faulty variant of LoadCell: the load comes from one cell further on
LoadCell_OffByOne(regs, idx) ==
    IF idx + 1 \in DOMAIN regs THEN regs[idx + 1] ELSE 0

\* line 87: registers[reg_addr + i]
LoadCell(regs, idx) == IF idx \in DOMAIN regs THEN regs[idx] ELSE 0

\* faulty variant of UartWrite: the bytes go out ahead of earlier ones
UartWrite_Prepend(line, bytes) == bytes \o line

\* uart_write_blocking: the bytes go out behind everything written before
UartWrite(line, bytes) == line \o bytes

(***************************************************************************)
(* handle_uart_rx, one action per place where it can wait or loop.         *)
(***************************************************************************)
\* what the invocation that is ending did, kept for the next one
Summary ==
    LET ok == \E k \in 1..Len(inv.ev) : inv.ev[k] = "ck_ok"
    IN  [cmd |-> cmd_type, addr |-> reg_addr, len |-> data_len,
         data |-> IF ok /\ cmd_type = CMD_WRITE
                  THEN BufSeq(data_buffer, data_len) ELSE <<>>,
         accepted |-> ok]

\* faulty variant of StartRead: a read of several bytes asks for one too few
StartRead_Short(dst, len, ret) ==
    [dst |-> dst, len |-> IF len > 1 THEN len - 1 ELSE len, idx |-> 0,
     ret |-> ret]

\* the call uart_read_blocking(uart, dst, len) begins; ret is where
\* handle_uart_rx goes on when it returns
StartRead(dst, len, ret) == [dst |-> dst, len |-> len, idx |-> 0, ret |-> ret]

\* lines 17-20 and 158: entry, and the return when nothing is readable
handle_uart_rx_poll ==
    /\ pc = "uart"
    /\ inv' = FreshInv(registers, log.nread, rx # <<>>)
    /\ prev' = IF inv.consumed > 0 THEN Summary ELSE prev
    /\ header' = ZeroHeader
    /\ cmd_type' = 0
    /\ reg_addr' = 0
    /\ data_len' = 0
    /\ data_buffer' = ZeroBuf
    /\ discard_buf' = ZeroBuf
    /\ checksum_rx' = 0
    /\ response' = <<>>
    /\ i' = 0
    /\ IF rx = <<>>
       THEN pc' = "motor_ctl" /\ rd' = NoRead
       ELSE pc' = "read" /\ rd' = StartRead("header", 3, "validate")
    /\ log' = IF rx = <<>> THEN log
              ELSE [log EXCEPT !.starts = @ \cup {log.nread}]
    /\ UNCHANGED <<registers, consumerVars, rx, tx, envVars, host>>

\* one byte of the line goes to the destination of the read in progress;
\* after the last the read returns to its caller, and on return from the
\* header read lines 28-30 copy the header
UartTakeByte ==
    /\ pc = "read"
    /\ rx # <<>>
    /\ LET b == Head(rx)
           k == rd.idx
           last == (k + 1 = rd.len)
           h == IF rd.dst = "header" /\ k \in DOMAIN header
                THEN [header EXCEPT ![k] = b] ELSE header
       IN  /\ rx' = Tail(rx)
           /\ header' = h
           /\ data_buffer' = IF rd.dst = "data_buffer" /\ k \in DOMAIN data_buffer
                             THEN [data_buffer EXCEPT ![k] = b] ELSE data_buffer
           /\ discard_buf' = IF rd.dst = "discard_buf" /\ k \in DOMAIN discard_buf
                             THEN [discard_buf EXCEPT ![k] = b] ELSE discard_buf
           /\ checksum_rx' = IF rd.dst = "checksum_rx" THEN b ELSE checksum_rx
           /\ inv' = [inv EXCEPT
                        !.consumed = @ + 1,
                        !.bufacc = IF rd.dst \in {"data_buffer", "discard_buf"}
                                   THEN @ \cup {k} ELSE @]
           /\ log' = [log EXCEPT !.nread = @ + 1]
           /\ IF last
              THEN /\ pc' = IF rd.ret = "return" THEN "motor_ctl" ELSE rd.ret
                   /\ rd' = NoRead
                   /\ IF rd.ret = "validate"
                      THEN /\ cmd_type' = h[0]
                           /\ reg_addr' = h[1]
                           /\ data_len' = h[2]
                      ELSE UNCHANGED <<cmd_type, reg_addr, data_len>>
              ELSE /\ pc' = "read"
                   /\ rd' = [rd EXCEPT !.idx = k + 1]
                   /\ UNCHANGED <<cmd_type, reg_addr, data_len>>
    /\ UNCHANGED <<registers, response, i, consumerVars, tx, envVars, host, prev>>

\* faulty variant of uart_read_blocking: with no byte on the line the read
\* gives up and handle_uart_rx returns
uart_read_available ==
    \/ UartTakeByte
    \/ /\ pc = "read"
       /\ rx = <<>>
       /\ pc' = "motor_ctl"
       /\ rd' = NoRead
       /\ UNCHANGED <<registers, header, cmd_type, reg_addr, data_len,
                      data_buffer, discard_buf, checksum_rx, response, i,
                      consumerVars, rx, tx, envVars, host, inv, prev, log>>

\* uart_read_blocking(uart, dst, len) (lines 24, 39, 43, 53, 68, 107, 111):
\* it waits for each byte, however long the host takes
uart_read_blocking == UartTakeByte

\* faulty variant of handle_uart_rx_validate: an unknown command is answered
\* with a NACK
handle_uart_rx_validate_UnknownNack ==
    /\ pc = "validate"
    /\ IF AddrRangeInvalid(reg_addr, data_len)
       THEN /\ inv' = [inv EXCEPT !.ev = Append(@, "hdr_fail")]
            /\ IF cmd_type = CMD_READ
               THEN pc' = "read" /\ rd' = StartRead("header", 1, "return")
               ELSE IF cmd_type = CMD_WRITE /\ data_len <= MAX_PAYLOAD
               THEN pc' = "read"
                    /\ rd' = StartRead("discard_buf", DiscardLength(data_len),
                                    "return")
               ELSE pc' = "motor_ctl" /\ rd' = NoRead
       ELSE IF LengthTooLarge(data_len)
       THEN /\ inv' = [inv EXCEPT !.ev = Append(@, "hdr_fail")]
            /\ IF cmd_type = CMD_READ
               THEN pc' = "read" /\ rd' = StartRead("header", 1, "return")
               ELSE pc' = "motor_ctl" /\ rd' = NoRead
       ELSE IF cmd_type = CMD_READ
       THEN /\ inv' = [inv EXCEPT !.ev = Append(@, "hdr_ok")]
            /\ pc' = "read"
            /\ rd' = StartRead("checksum_rx", 1, "rd_verify")
       ELSE IF cmd_type = CMD_WRITE
       THEN /\ inv' = [inv EXCEPT !.ev = Append(@, "hdr_ok")]
            /\ pc' = "read"
            /\ rd' = IF data_len > 0
                     THEN StartRead("data_buffer", data_len, "wr_cksum")
                     ELSE StartRead("checksum_rx", 1, "wr_verify")
       ELSE /\ inv' = [inv EXCEPT !.ev = Append(@, "hdr_ok")]
            /\ pc' = "wr_nack"
            /\ rd' = NoRead
    /\ UNCHANGED <<registers, header, cmd_type, reg_addr, data_len, data_buffer,
                   discard_buf, checksum_rx, response, i, consumerVars, rx, tx,
                   envVars, host, prev, log>>

\* lines 34-61 (header validation and the discard reads it starts) and the
\* dispatch of lines 64, 100, 105 and 151
handle_uart_rx_validate ==
    /\ pc = "validate"
    /\ IF AddrRangeInvalid(reg_addr, data_len)
       THEN /\ inv' = [inv EXCEPT !.ev = Append(@, "hdr_fail")]
            /\ IF cmd_type = CMD_READ
               THEN pc' = "read" /\ rd' = StartRead("header", 1, "return")
               ELSE IF cmd_type = CMD_WRITE /\ data_len <= MAX_PAYLOAD
               THEN pc' = "read"
                    /\ rd' = StartRead("discard_buf", DiscardLength(data_len),
                                    "return")
               ELSE pc' = "motor_ctl" /\ rd' = NoRead
       ELSE IF LengthTooLarge(data_len)
       THEN /\ inv' = [inv EXCEPT !.ev = Append(@, "hdr_fail")]
            /\ IF cmd_type = CMD_READ
               THEN pc' = "read" /\ rd' = StartRead("header", 1, "return")
               ELSE pc' = "motor_ctl" /\ rd' = NoRead
       ELSE IF cmd_type = CMD_READ
       THEN /\ inv' = [inv EXCEPT !.ev = Append(@, "hdr_ok")]
            /\ pc' = "read"
            /\ rd' = StartRead("checksum_rx", 1, "rd_verify")
       ELSE IF cmd_type = CMD_WRITE
       THEN /\ inv' = [inv EXCEPT !.ev = Append(@, "hdr_ok")]
            /\ pc' = "read"
            /\ rd' = IF data_len > 0
                     THEN StartRead("data_buffer", data_len, "wr_cksum")
                     ELSE StartRead("checksum_rx", 1, "wr_verify")
       ELSE /\ inv' = [inv EXCEPT !.ev = Append(@, "hdr_ok")]
            /\ pc' = "motor_ctl"
            /\ rd' = NoRead
    /\ UNCHANGED <<registers, header, cmd_type, reg_addr, data_len, data_buffer,
                   discard_buf, checksum_rx, response, i, consumerVars, rx, tx,
                   envVars, host, prev, log>>

\* faulty variant of handle_uart_rx_read_verify: the copy loop tests its
\* condition after the first turn
handle_uart_rx_read_verify_CopyOnce ==
    /\ pc = "rd_verify"
    /\ IF ReadChecksumCalc(header) # checksum_rx
       THEN /\ inv' = [inv EXCEPT !.ev = Append(@, "ck_fail")]
            /\ pc' = "motor_ctl"
            /\ UNCHANGED <<response, i>>
       ELSE /\ inv' = [inv EXCEPT !.ev = Append(@, "ck_ok")]
            /\ response' = <<reg_addr, data_len>>
            /\ i' = 0
            /\ pc' = "rd_copy"
    /\ UNCHANGED <<registers, header, cmd_type, reg_addr, data_len, data_buffer,
                   discard_buf, checksum_rx, rd, consumerVars, rx, tx, envVars,
                   host, prev, log>>

\* faulty variant of handle_uart_rx_read_verify: a read request with a wrong
\* checksum is answered with a NACK
handle_uart_rx_read_verify_Nack ==
    /\ pc = "rd_verify"
    /\ IF ReadChecksumCalc(header) # checksum_rx
       THEN /\ inv' = [inv EXCEPT !.ev = Append(@, "ck_fail")]
            /\ pc' = "wr_nack"
            /\ UNCHANGED <<response, i>>
       ELSE /\ inv' = [inv EXCEPT !.ev = Append(@, "ck_ok")]
            /\ response' = <<reg_addr, data_len>>
            /\ i' = 0
            /\ pc' = IF data_len > 0 THEN "rd_copy" ELSE "rd_send"
    /\ UNCHANGED <<registers, header, cmd_type, reg_addr, data_len, data_buffer,
                   discard_buf, checksum_rx, rd, consumerVars, rx, tx, envVars,
                   host, prev, log>>

\* lines 72-81: the read request's checksum, then the response's first bytes
handle_uart_rx_read_verify ==
    /\ pc = "rd_verify"
    /\ IF ReadChecksumCalc(header) # checksum_rx
       THEN /\ inv' = [inv EXCEPT !.ev = Append(@, "ck_fail")]
            /\ pc' = "motor_ctl"
            /\ UNCHANGED <<response, i>>
       ELSE /\ inv' = [inv EXCEPT !.ev = Append(@, "ck_ok")]
            /\ response' = <<reg_addr, data_len>>
            /\ i' = 0
            /\ pc' = IF data_len > 0 THEN "rd_copy" ELSE "rd_send"
    /\ UNCHANGED <<registers, header, cmd_type, reg_addr, data_len, data_buffer,
                   discard_buf, checksum_rx, rd, consumerVars, rx, tx, envVars,
                   host, prev, log>>

\* lines 86-88: one turn of the copy loop
handle_uart_rx_read_copy ==
    /\ pc = "rd_copy"
    /\ response' = Append(response, LoadCell(registers, reg_addr + i))
    /\ inv' = [inv EXCEPT !.acc = @ \cup {reg_addr + i}]
    /\ i' = i + 1
    /\ pc' = IF i + 1 < data_len THEN "rd_copy" ELSE "rd_send"
    /\ UNCHANGED <<registers, header, cmd_type, reg_addr, data_len, data_buffer,
                   discard_buf, checksum_rx, rd, consumerVars, rx, tx, envVars,
                   host, prev, log>>

\* lines 93-96: checksum the response and send it
handle_uart_rx_read_send ==
    /\ pc = "rd_send"
    /\ LET r == SealResponse(response)
       IN  /\ response' = r
           /\ tx' = UartWrite(tx, r)
           /\ inv' = [inv EXCEPT !.out = @ \o r, !.ev = Append(@, "resp")]
           /\ log' = [log EXCEPT
                        !.answers = Append(@, [at |-> inv.hdrAt, bytes |-> r])]
    /\ pc' = "motor_ctl"
    /\ UNCHANGED <<registers, header, cmd_type, reg_addr, data_len, data_buffer,
                   discard_buf, checksum_rx, i, rd, consumerVars, rx, envVars,
                   host, prev>>

\* line 111: the read of the write request's checksum byte
handle_uart_rx_write_cksum ==
    /\ pc = "wr_cksum"
    /\ pc' = "read"
    /\ rd' = StartRead("checksum_rx", 1, "wr_verify")
    /\ UNCHANGED <<registers, header, cmd_type, reg_addr, data_len, data_buffer,
                   discard_buf, checksum_rx, response, i, consumerVars, rx, tx,
                   envVars, host, inv, prev, log>>

\* faulty variant of handle_uart_rx_write_verify: the store loop tests its
\* condition after the first turn
handle_uart_rx_write_verify_StoreOnce ==
    /\ pc = "wr_verify"
    /\ IF WriteChecksumCalc(header, data_buffer, data_len) # checksum_rx
       THEN /\ inv' = [inv EXCEPT !.ev = Append(@, "ck_fail")]
            /\ pc' = "wr_nack"
       ELSE /\ inv' = [inv EXCEPT !.ev = Append(@, "ck_ok")]
            /\ pc' = "wr_store"
    /\ i' = 0
    /\ UNCHANGED <<registers, header, cmd_type, reg_addr, data_len, data_buffer,
                   discard_buf, checksum_rx, response, rd, consumerVars, rx, tx,
                   envVars, host, prev, log>>

\* faulty variant of handle_uart_rx_write_verify: after the NACK decision the
\* payload is stored all the same
handle_uart_rx_write_verify_StoreAnyway ==
    /\ pc = "wr_verify"
    /\ IF WriteChecksumCalc(header, data_buffer, data_len) # checksum_rx
       THEN /\ inv' = [inv EXCEPT !.ev = Append(@, "ck_fail")]
            /\ pc' = IF data_len > 0 THEN "wr_store" ELSE "wr_nack"
       ELSE /\ inv' = [inv EXCEPT !.ev = Append(@, "ck_ok")]
            /\ pc' = IF data_len > 0 THEN "wr_store" ELSE "wr_ack"
    /\ i' = 0
    /\ UNCHANGED <<registers, header, cmd_type, reg_addr, data_len, data_buffer,
                   discard_buf, checksum_rx, response, rd, consumerVars, rx, tx,
                   envVars, host, prev, log>>

\* lines 116-121 and 133: the write request's checksum
handle_uart_rx_write_verify ==
    /\ pc = "wr_verify"
    /\ IF WriteChecksumCalc(header, data_buffer, data_len) # checksum_rx
       THEN /\ inv' = [inv EXCEPT !.ev = Append(@, "ck_fail")]
            /\ pc' = "wr_nack"
       ELSE /\ inv' = [inv EXCEPT !.ev = Append(@, "ck_ok")]
            /\ pc' = IF data_len > 0 THEN "wr_store" ELSE "wr_ack"
    /\ i' = 0
    /\ UNCHANGED <<registers, header, cmd_type, reg_addr, data_len, data_buffer,
                   discard_buf, checksum_rx, response, rd, consumerVars, rx, tx,
                   envVars, host, prev, log>>

\* faulty variant of handle_uart_rx_write_store: after each byte but the last
\* the engine hands control back to the main loop
handle_uart_rx_write_store_Yield ==
    /\ pc = "wr_store"
    /\ registers' = StoreCell(registers, reg_addr + i, data_buffer[i])
    /\ inv' = [inv EXCEPT !.acc = @ \cup {reg_addr + i},
                          !.ev = Append(@, "store")]
    /\ i' = i + 1
    /\ pc' = IF i + 1 < data_len THEN "motor_ctl" ELSE "wr_ack"
    /\ UNCHANGED <<header, cmd_type, reg_addr, data_len, data_buffer,
                   discard_buf, checksum_rx, response, rd, consumerVars, rx, tx,
                   envVars, host, prev, log>>

\* lines 137-139: one turn of the store loop
handle_uart_rx_write_store ==
    /\ pc = "wr_store"
    /\ registers' = StoreCell(registers, reg_addr + i, data_buffer[i])
    /\ inv' = [inv EXCEPT !.acc = @ \cup {reg_addr + i},
                          !.ev = Append(@, "store")]
    /\ i' = i + 1
    /\ pc' = IF i + 1 < data_len THEN "wr_store" ELSE "wr_ack"
    /\ UNCHANGED <<header, cmd_type, reg_addr, data_len, data_buffer,
                   discard_buf, checksum_rx, response, rd, consumerVars, rx, tx,
                   envVars, host, prev, log>>

\* a three-byte write response goes out and the invocation returns
SendWriteResponse(r) ==
    /\ tx' = UartWrite(tx, r)
    /\ inv' = [inv EXCEPT !.out = @ \o r, !.ev = Append(@, "resp")]
    /\ log' = [log EXCEPT !.answers = Append(@, [at |-> inv.hdrAt, bytes |-> r])]
    /\ pc' = "motor_ctl"
    /\ UNCHANGED <<registers, header, cmd_type, reg_addr, data_len, data_buffer,
                   discard_buf, checksum_rx, response, i, rd, consumerVars, rx,
                   envVars, host, prev>>

\* lines 122-129
handle_uart_rx_write_nack ==
    /\ pc = "wr_nack"
    /\ SendWriteResponse(NackResponse(reg_addr))

\* lines 144-149
handle_uart_rx_write_ack ==
    /\ pc = "wr_ack"
    /\ SendWriteResponse(AckResponse(reg_addr))

handle_uart_rx ==
    \/ handle_uart_rx_poll
    \/ uart_read_blocking
    \/ handle_uart_rx_validate
    \/ handle_uart_rx_read_verify
    \/ handle_uart_rx_read_copy
    \/ handle_uart_rx_read_send
    \/ handle_uart_rx_write_cksum
    \/ handle_uart_rx_write_verify
    \/ handle_uart_rx_write_store
    \/ handle_uart_rx_write_nack
    \/ handle_uart_rx_write_ack

(***************************************************************************)
(* time_us_32(): the clock has moved on by one of the steps D, or by less  *)
(* than a microsecond, since it was last read.                             *)
(***************************************************************************)
Clock(D) == {t \in {now + d : d \in D \cup {0}} : t <= MaxTime}

(***************************************************************************)
(* motor_control.c                                                         *)
(***************************************************************************)
\* init_motor_control: memset(motor_state, 0, sizeof(motor_state))
InitMotor == [moving |-> FALSE, current_pos |-> 0, target_pos |-> 0,
              max_speed |-> 0, accel |-> 0]

\* lines 50-67 (motor 1) and 72-85 (motor 2): the start and stop bits of one
\* motor's control register, tested on the value read at line 50 / 72
\* faulty variant of MotorCommand: the start and stop bits stay in the map
MotorCommand_KeepBits(st, regs, ctl, tgt, spd, acc) ==
    LET m_control == regs[ctl]
        start == BitIsSet(m_control, 0)
        stop == BitIsSet(m_control, 1)
        st1 == IF start
               THEN [st EXCEPT !.target_pos = READ_U32_REGISTER(regs, tgt),
                               !.max_speed = READ_U16_REGISTER(regs, spd),
                               !.accel = READ_U16_REGISTER(regs, acc),
                               !.moving = TRUE]
               ELSE st
        st2 == IF stop THEN [st1 EXCEPT !.moving = FALSE] ELSE st1
    IN  [st |-> st2, regs |-> regs]

MotorCommand(st, regs, ctl, tgt, spd, acc) ==
    LET m_control == regs[ctl]
        start == BitIsSet(m_control, 0)
        stop == BitIsSet(m_control, 1)
        st1 == IF start
               THEN [st EXCEPT !.target_pos = READ_U32_REGISTER(regs, tgt),
                               !.max_speed = READ_U16_REGISTER(regs, spd),
                               !.accel = READ_U16_REGISTER(regs, acc),
                               !.moving = TRUE]
               ELSE st
        regs1 == IF start THEN [regs EXCEPT ![ctl] = ClearBit(@, 0)] ELSE regs
        st2 == IF stop THEN [st1 EXCEPT !.moving = FALSE] ELSE st1
        regs2 == IF stop THEN [regs1 EXCEPT ![ctl] = ClearBit(@, 1)] ELSE regs1
    IN  [st |-> st2, regs |-> regs2]

\* lines 41-89
update_motor_control_from_registers(D) ==
    /\ pc = "motor_ctl"
    /\ \E t \in Clock(D) :
         /\ now' = t
         /\ IF Sub32(t, last_reg_check_time) < REG_CHECK_INTERVAL_US
            THEN UNCHANGED <<registers, motor_state, last_reg_check_time>>
            ELSE LET m1 == MotorCommand(motor_state[0], registers,
                                        REG_MOTOR1_CONTROL,
                                        REG_MOTOR1_TARGET_POS_L,
                                        REG_MOTOR1_MAX_SPEED_L,
                                        REG_MOTOR1_ACCEL_L)
                     m2 == MotorCommand(motor_state[1], m1.regs,
                                        REG_MOTOR2_CONTROL,
                                        REG_MOTOR2_TARGET_POS_L,
                                        REG_MOTOR2_MAX_SPEED_L,
                                        REG_MOTOR2_ACCEL_L)
                 IN  /\ last_reg_check_time' = t
                     /\ motor_state' = [m \in 0..1 |->
                                          IF m = 0 THEN m1.st ELSE m2.st]
                     /\ registers' = m2.regs
    /\ pc' = "switch"
    /\ UNCHANGED <<engineVars, switch_state, rx, tx, gpio, host, inv, prev, log>>

\* faulty variant of StatusByte: the ready bit is left as it was found
StatusByte_KeepReady(status, ms) ==
    LET s1 == IF ms[0].moving THEN SetBit(status, 1) ELSE ClearBit(status, 1)
    IN  IF ms[1].moving THEN SetBit(s1, 2) ELSE ClearBit(s1, 2)

\* lines 95-102: the status byte, from the moving flags as they are on entry
StatusByte(status, ms) ==
    LET s1 == IF ms[0].moving THEN SetBit(status, 1) ELSE ClearBit(status, 1)
        s2 == IF ms[1].moving THEN SetBit(s1, 2) ELSE ClearBit(s1, 2)
    IN  SetBit(s2, 0)

\* lines 108-121, for one motor: a step toward the target, then the test
\* for the target
\* faulty variant of MotorAdvance: the target is never found reached
MotorAdvance_NoArrival(st) ==
    LET c1 == IF st.moving /\ st.current_pos < st.target_pos
              THEN st.current_pos + 1 ELSE st.current_pos
        c2 == IF st.moving /\ c1 > st.target_pos THEN c1 - 1 ELSE c1
    IN  [st EXCEPT !.current_pos = c2]

MotorAdvance(st) ==
    LET c1 == IF st.moving /\ st.current_pos < st.target_pos
              THEN st.current_pos + 1 ELSE st.current_pos
        c2 == IF st.moving /\ c1 > st.target_pos THEN c1 - 1 ELSE c1
    IN  [st EXCEPT !.current_pos = c2,
                   !.moving = IF st.moving /\ c2 = st.target_pos
                              THEN FALSE ELSE st.moving]

\* lines 93-129
update_motor_status_registers ==
    /\ pc = "motor_status"
    /\ LET ms == [m \in 0..1 |-> MotorAdvance(motor_state[m])]
           r0 == [registers EXCEPT
                    ![REG_STATUS] = StatusByte(registers[REG_STATUS], motor_state)]
           r1 == WRITE_U32_REGISTER(r0, REG_MOTOR1_CURRENT_POS_L, ms[0].current_pos)
           r2 == WRITE_U32_REGISTER(r1, REG_MOTOR2_CURRENT_POS_L, ms[1].current_pos)
       IN  /\ motor_state' = ms
           /\ registers' = r2
    /\ pc' = "uart"
    /\ log' = [log EXCEPT !.looped = TRUE]
    /\ UNCHANGED <<engineVars, last_reg_check_time, switch_state, rx, tx,
                   envVars, host, inv, prev>>

(***************************************************************************)
(* switches.c                                                              *)
(***************************************************************************)
\* init_switches, for one switch: lines 26-29 / 36-39
InitSwitch(level, t) ==
    [raw_state |-> level, debounced_state |-> level, changed |-> FALSE,
     last_change_time |-> t]

\* lines 48-70: one turn of the loop, for the reading and the time given.
\* upd is what the turn contributes to needs_register_update.
\* faulty variant of Debounce: a reading is taken over when it has lasted
\* exactly the delay
Debounce_AtDelay(sw, current_reading, t) ==
    LET differs == current_reading # sw.raw_state
        stable == /\ ~differs
                  /\ ~sw.changed
                  /\ Sub32(t, sw.last_change_time) >= DEBOUNCE_DELAY_US
                  /\ current_reading # sw.debounced_state
        s1 == IF differs
              THEN [sw EXCEPT !.raw_state = current_reading,
                              !.last_change_time = t,
                              !.changed = FALSE]
              ELSE IF stable
              THEN [sw EXCEPT !.debounced_state = current_reading,
                              !.changed = TRUE]
              ELSE sw
        s2 == IF Sub32(t, s1.last_change_time) <= DEBOUNCE_DELAY_US
              THEN [s1 EXCEPT !.changed = FALSE] ELSE s1
    IN  [sw |-> s2, upd |-> stable]

Debounce(sw, current_reading, t) ==
    LET differs == current_reading # sw.raw_state
        stable == /\ ~differs
                  /\ ~sw.changed
                  /\ Sub32(t, sw.last_change_time) > DEBOUNCE_DELAY_US
                  /\ current_reading # sw.debounced_state
        s1 == IF differs
              THEN [sw EXCEPT !.raw_state = current_reading,
                              !.last_change_time = t,
                              !.changed = FALSE]
              ELSE IF stable
              THEN [sw EXCEPT !.debounced_state = current_reading,
                              !.changed = TRUE]
              ELSE sw
        s2 == IF Sub32(t, s1.last_change_time) <= DEBOUNCE_DELAY_US
              THEN [s1 EXCEPT !.changed = FALSE] ELSE s1
    IN  [sw |-> s2, upd |-> stable]

\* lines 75-82
SwitchStatusByte(ss) ==
    (IF ~ss[0].debounced_state THEN 1 ELSE 0)
      + (IF ~ss[1].debounced_state THEN 2 ELSE 0)

\* lines 43-85
update_switch_status_registers(D) ==
    /\ pc = "switch"
    /\ \E t \in Clock(D) :
         LET d0 == Debounce(switch_state[0], gpio[0], t)
             d1 == Debounce(switch_state[1], gpio[1], t)
             ss == [s \in 0..1 |-> IF s = 0 THEN d0.sw ELSE d1.sw]
         IN  /\ now' = t
             /\ switch_state' = ss
             /\ registers' = IF d0.upd \/ d1.upd
                             THEN [registers EXCEPT
                                     ![REG_SWITCH_STATUS] = SwitchStatusByte(ss)]
                             ELSE registers
             /\ log' = [log EXCEPT
                          !.level = gpio,
                          !.since =
                            [@ EXCEPT
                               ![0] = IF gpio[0] # log.level[0] THEN t ELSE @,
                               ![1] = IF gpio[1] # log.level[1] THEN t ELSE @]]
    /\ pc' = "motor_status"
    /\ UNCHANGED <<engineVars, motor_state, last_reg_check_time, rx, tx, gpio,
                   host, inv, prev>>

(***************************************************************************)
(* The environment: the host on the serial line, and the switch pins.      *)
(* The firmware looks at the line only in uart_is_readable and             *)
(* uart_read_blocking, and at the pins only in gpio_get, so bytes arrive   *)
(* and pins change right before those looks.                               *)
(***************************************************************************)
\* body followed by the XOR of its bytes
Sealed(body) == Append(body, calculate_checksum(body))
\* a well-formed read request
ReadFrame(addr, len) == Sealed(<<CMD_READ, addr, len>>)
\* a well-formed write request
WriteFrame(addr, data) == Sealed(<<CMD_WRITE, addr, Len(data)>> \o data)
\* frame f with the lowest bit of its last byte flipped
BadChecksum(f) == [f EXCEPT ![Len(f)] = Xor(@, 1)]

\* a write request whose header declares 17 bytes at 30..46, one cell past
\* the map, and whose payload starts with a well-formed write request
OverlongWrite ==
    Sealed(<<CMD_WRITE, 30, 17>> \o WriteFrame(REG_MOTOR1_TARGET_POS_L, <<100>>)
             \o <<3, 3, 3, 3, 3, 3, 3, 3, 3, 3, 3, 3>>)

\* what the host may send in the protocol specification: well-formed
\* requests, requests with a bad checksum, headers outside the map or over
\* the payload limit, an unknown command, and requests cut short
EngineFrames ==
    << WriteFrame(REG_MOTOR1_TARGET_POS_L, <<100, 0, 0, 0>>),
       ReadFrame(REG_MOTOR1_TARGET_POS_L, 4),
       BadChecksum(WriteFrame(REG_MOTOR1_TARGET_POS_L, <<100, 0, 0, 0>>)),
       BadChecksum(ReadFrame(REG_MOTOR1_TARGET_POS_L, 4)),
       WriteFrame(REG_STATUS, <<0>>),
       ReadFrame(REG_STATUS, 1),
       WriteFrame(REGISTER_MAP_SIZE - 1, <<7>>),
       ReadFrame(REGISTER_MAP_SIZE - 1, 1),
       WriteFrame(REG_MOTOR1_TARGET_POS_L, <<>>),
       ReadFrame(REG_MOTOR1_TARGET_POS_L, 0),
       Sealed(<<CMD_WRITE, REGISTER_MAP_SIZE - 1, 2, 9, 9>>),
       Sealed(<<CMD_WRITE, REGISTER_MAP_SIZE, 1, 9>>),
       Sealed(<<CMD_READ, REGISTER_MAP_SIZE, 0>>),
       Sealed(<<CMD_READ, 0, 17>>),
       Sealed(<<CMD_WRITE, 0, 17>>),
       OverlongWrite,
       Sealed(<<3, REG_MOTOR1_TARGET_POS_L, 0>>),
       <<CMD_WRITE, REG_MOTOR1_TARGET_POS_L>>,
       <<CMD_WRITE, REG_MOTOR1_TARGET_POS_L, 4, 100>> >>

\* what the host may send in the whole-system specification: writes to and
\* reads of the cells the consumers own, and of a cell they leave alone
SystemFrames ==
    << WriteFrame(REG_STATUS, <<0, 2>>),
       ReadFrame(REG_STATUS, 2),
       WriteFrame(REG_MOTOR1_CONTROL, <<1, 1, 0, 0, 0, 9>>),
       ReadFrame(REG_MOTOR1_CONTROL, 6),
       BadChecksum(WriteFrame(REG_STATUS, <<0, 2>>)) >>

\* the clock steps between two readings of time_us_32(): enough for the
\* debounce delay at one step and for the register check interval at two
ClockSteps == {DEBOUNCE_DELAY_US + 1}

\* the host puts the bytes of frame f on the line, up to max frames a run
HostSendFrame(f, max) ==
    /\ pc = "uart" \/ (pc = "read" /\ rx = <<>>)
    /\ host.frames < max
    /\ rx' = rx \o f
    /\ log' = [log EXCEPT
                 !.frames = Append(@, [at |-> log.nread + Len(rx),
                                       bytes |-> f])]
    /\ host' = [host EXCEPT !.frames = @ + 1]
    /\ inv' = IF pc = "read"
              THEN [inv EXCEPT !.waitedAt = @ \cup {inv.consumed}] ELSE inv
    /\ UNCHANGED <<registers, pc, engineVars, consumerVars, tx, envVars, prev>>
\* the host sends one frame of the list F
HostSend(F, max) == \E n \in 1..Len(F) : HostSendFrame(F[n], max)

\* a switch is pressed or released, up to max times
PinChangeUpTo(max) ==
    /\ pc = "switch"
    /\ host.pins < max
    /\ \E k \in 0..1 : gpio' = [gpio EXCEPT ![k] = ~@]
    /\ host' = [host EXCEPT !.pins = @ + 1]
    /\ UNCHANGED <<registers, pc, engineVars, consumerVars, rx, tx, now,
                   inv, prev, log>>
PinChange == PinChangeUpTo(MaxPinChanges)

(***************************************************************************)
(* main(): the state when the main loop is entered, and the loop.          *)
(***************************************************************************)
\* main.c lines 30-71 with the pins at one of the levels P
InitWith(P) ==
    /\ registers = [a \in RegAddrs |-> 0]
    /\ pc = "uart"
    /\ header = ZeroHeader
    /\ cmd_type = 0
    /\ reg_addr = 0
    /\ data_len = 0
    /\ data_buffer = ZeroBuf
    /\ discard_buf = ZeroBuf
    /\ checksum_rx = 0
    /\ response = <<>>
    /\ i = 0
    /\ rd = NoRead
    /\ now = 0
    /\ gpio \in P
    /\ switch_state = [s \in 0..1 |-> InitSwitch(gpio[s], now)]
    /\ motor_state = [m \in 0..1 |-> InitMotor]
    /\ last_reg_check_time = now
    /\ rx = <<>>
    /\ tx = <<>>
    /\ host = [frames |-> 0, pins |-> 0]
    /\ inv = FreshInv(registers, 0, FALSE)
    /\ prev = NoPrev
    /\ log = FreshLog(gpio)

\* main.c lines 75-95: one call of the loop body at a time
MainLoop(D) ==
    \/ handle_uart_rx
    \/ update_motor_control_from_registers(D)
    \/ update_switch_status_registers(D)
    \/ update_motor_status_registers

\* The whole system: the host sends a few frames to the cells the consumers
\* own, the clock runs, the switches move.
Init == InitWith([0..1 -> BOOLEAN])
Next ==
    \/ MainLoop(ClockSteps)
    \/ HostSend(SystemFrames, MaxSysFrames)
    \/ PinChange
Spec == Init /\ [][Next]_vars

\* The protocol engine under every kind of frame, with both switches
\* released.
EngineInit == InitWith({[s \in 0..1 |-> TRUE]})
EngineNext ==
    \/ MainLoop(ClockSteps)
    \/ HostSend(EngineFrames, MaxFrames)
EngineSpec == EngineInit /\ [][EngineNext]_vars

\* byte b with bit k inverted
FlipBit(b, k) == IF BitIsSet(b, k) THEN b - Pow2(k) ELSE b + Pow2(k)
\* frame f with bit k of its p-th byte inverted on the line
Flipped(f, p, k) == [f EXCEPT ![p] = FlipBit(@, k)]

\* requests the engine accepts.  The write's third data byte is the XOR of
\* cmd, addr, the length 2 and the first two data bytes.
AcceptedFrames ==
    << ReadFrame(REG_MOTOR1_TARGET_POS_L, 4),
       WriteFrame(REG_MOTOR1_TARGET_POS_L, <<100, 0, 117>>) >>

\* f is one of the accepted requests
IsAccepted(f) == \E n \in 1..Len(AcceptedFrames) : f = AcceptedFrames[n]

\* the host has sent a corrupted frame
FlippedSent ==
    \E k \in 1..Len(log.frames) : ~IsAccepted(log.frames[k].bytes)

\* the line corrupts one frame of the run: an accepted request goes out with
\* one bit of one byte inverted
HostSendFlipped ==
    /\ ~FlippedSent
    /\ \E n \in 1..Len(AcceptedFrames) :
         \E p \in 1..Len(AcceptedFrames[n]), k \in 0..7 :
            HostSendFrame(Flipped(AcceptedFrames[n], p, k), MaxFlipStream)

\* The protocol engine under a stream of accepted frames one of which has a
\* single bit inverted.
FlipNext ==
    \/ MainLoop(ClockSteps)
    \/ HostSend(AcceptedFrames, MaxFlipStream)
    \/ HostSendFlipped
FlipSpec == EngineInit /\ [][FlipNext]_vars

\* the requests of the target-position scenario: target position 100 is
\* written to motor 1, read back, and the motor is started; a write of
\* another target arrives with a wrong checksum
ScenarioWrite == WriteFrame(REG_MOTOR1_TARGET_POS_L, <<100, 0, 0, 0>>)
ScenarioRead == ReadFrame(REG_MOTOR1_TARGET_POS_L, 4)
ScenarioFrames ==
    << ScenarioWrite, ScenarioRead, WriteFrame(REG_MOTOR1_CONTROL, <<1>>),
       BadChecksum(WriteFrame(REG_MOTOR1_TARGET_POS_L, <<7, 0, 0, 0>>)) >>

\* The whole firmware under the frames of the scenario, with both switches
\* released: the motor, once started, steps toward its target.
ScenarioNext ==
    \/ MainLoop(ClockSteps)
    \/ HostSend(ScenarioFrames, MaxScenarioFrames)
ScenarioSpec == EngineInit /\ [][ScenarioNext]_vars

\* a read and a write request of length 0 at every address of the map,
\* next to requests that carry data
ZeroLenFrames ==
    [a \in 1..REGISTER_MAP_SIZE |-> ReadFrame(a - 1, 0)]
      \o [a \in 1..REGISTER_MAP_SIZE |-> WriteFrame(a - 1, <<>>)]
      \o ScenarioFrames

\* The whole firmware under requests of length 0 at every address.
ZeroLenNext ==
    \/ MainLoop(ClockSteps)
    \/ HostSend(ZeroLenFrames, MaxZeroLenFrames)
ZeroLenSpec == EngineInit /\ [][ZeroLenNext]_vars

\* byte values of the checksum specification: every bit occurs set and clear
ChecksumBytes == {0, 1, 2, 100, 128, 255}
\* the inputs of calculate_checksum: the byte sequences of up to
\* MaxChecksumLen bytes
ChecksumInputs ==
    UNION {[1..n -> ChecksumBytes] : n \in 0..MaxChecksumLen}

\* calculate_checksum on its own: response holds len bytes, and line 93,
\* response[len] = calculate_checksum(response, len), is about to run
ChecksumInit ==
    /\ response \in ChecksumInputs
    /\ pc = "seal"
    /\ registers = [a \in RegAddrs |-> 0]
    /\ header = ZeroHeader
    /\ cmd_type = 0
    /\ reg_addr = 0
    /\ data_len = 0
    /\ data_buffer = ZeroBuf
    /\ discard_buf = ZeroBuf
    /\ checksum_rx = 0
    /\ i = 0
    /\ rd = NoRead
    /\ now = 0
    /\ gpio = [s \in 0..1 |-> TRUE]
    /\ switch_state = [s \in 0..1 |-> InitSwitch(gpio[s], now)]
    /\ motor_state = [m \in 0..1 |-> InitMotor]
    /\ last_reg_check_time = now
    /\ rx = <<>>
    /\ tx = <<>>
    /\ host = [frames |-> 0, pins |-> 0]
    /\ inv = FreshInv(registers, 0, FALSE)
    /\ prev = NoPrev
    /\ log = FreshLog(gpio)

\* line 93 alone
ChecksumNext ==
    /\ pc = "seal"
    /\ response' = SealResponse(response)
    /\ pc' = "sealed"
    /\ UNCHANGED <<registers, header, cmd_type, reg_addr, data_len, data_buffer,
                   discard_buf, checksum_rx, i, rd, consumerVars, rx, tx,
                   envVars, host, inv, prev, log>>
ChecksumSpec == ChecksumInit /\ [][ChecksumNext]_vars

\* commands to both motors: a start for motor 1 with every spare bit of the
\* control register set and all its parameters, a start together with a stop
\* for motor 2 with a negative target, next to a read and a rejected write
MotorFrames ==
    << WriteFrame(REG_MOTOR1_CONTROL,
                  <<253, 2, 0, 0, 0, 9, 9, 9, 9, 52, 18, 120, 86>>),
       WriteFrame(REG_MOTOR2_CONTROL, <<3, 255, 255, 255, 255>>),
       ReadFrame(REG_MOTOR1_CONTROL, 1),
       BadChecksum(WriteFrame(REG_MOTOR1_CONTROL, <<1>>)) >>

\* The whole firmware under commands to both motors, with both switches
\* released.
MotorNext ==
    \/ MainLoop(ClockSteps)
    \/ HostSend(MotorFrames, MaxMotorFrames)
MotorSpec == EngineInit /\ [][MotorNext]_vars

\* the host reads and writes the switch status byte
SwitchFrames ==
    << WriteFrame(REG_SWITCH_STATUS, <<2>>),
       ReadFrame(REG_SWITCH_STATUS, 1),
       BadChecksum(WriteFrame(REG_SWITCH_STATUS, <<2>>)) >>
\* clock steps of half the debounce delay and one microsecond more: a
\* reading can have lasted exactly DEBOUNCE_DELAY_US, or just over it
SwitchClockSteps == {DEBOUNCE_DELAY_US \div 2, DEBOUNCE_DELAY_US \div 2 + 1}

\* The whole firmware with bouncing switches: the pins at any level at boot,
\* pressed and released at any reading.
SwitchNext ==
    \/ MainLoop(SwitchClockSteps)
    \/ HostSend(SwitchFrames, MaxSwitchFrames)
    \/ PinChangeUpTo(MaxSwitchPinChanges)
SwitchSpec == Init /\ [][SwitchNext]_vars

\* the targets of the moves: ahead of the position at boot, behind it, and
\* the position at boot itself
MoveTargets == {2, -1, 0}
\* starts for both motors with these targets (the third with the target the
\* map holds), a stop, a read of a current position and a rejected write
MoveFrames ==
    << WriteFrame(REG_MOTOR1_CONTROL, <<1, 2, 0, 0, 0>>),
       WriteFrame(REG_MOTOR2_CONTROL, <<1, 255, 255, 255, 255>>),
       WriteFrame(REG_MOTOR1_CONTROL, <<1>>),
       WriteFrame(REG_MOTOR1_CONTROL, <<2>>),
       ReadFrame(REG_MOTOR1_CURRENT_POS_L, 4),
       BadChecksum(WriteFrame(REG_MOTOR1_CONTROL, <<1>>)) >>

\* The whole firmware under start commands, with both switches released.
MoveNext ==
    \/ MainLoop(ClockSteps)
    \/ HostSend(MoveFrames, MaxMoveFrames)
MoveSpec == EngineInit /\ [][MoveNext]_vars
\* main.c line 75: while (1) never leaves the loop, so the loop body keeps
\* running as long as no call blocks
MoveFairSpec == MoveSpec /\ WF_vars(MainLoop(ClockSteps))

\* values of a 32-bit field, as the int32_t with the same bits: every byte
\* position occurs zero and non-zero, and the sign bit set and clear
CodecValues32 ==
    {0, 1, 100, 255, 256, 65536, 16777216, 305419896, 2147483647,
     -1, -2, -256, -2147483647 - 1}
\* values of a 16-bit field
CodecValues16 == {0, 1, 255, 256, 4660, 32768, 65535}
\* what the map holds before a codec runs
CodecFill == [a \in RegAddrs |-> 170]

\* The register codecs on their own: motor 1's current_pos and max_speed
\* hold the values to encode, reg_addr the address of the field.
CodecInit ==
    /\ reg_addr \in RegAddrs
    /\ motor_state \in
         {[m \in 0..1 |-> IF m = 0
                           THEN [InitMotor EXCEPT !.current_pos = v,
                                                  !.max_speed = w]
                           ELSE InitMotor] :
            v \in CodecValues32, w \in CodecValues16}
    /\ pc = "codec"
    /\ registers = CodecFill
    /\ header = ZeroHeader
    /\ cmd_type = 0
    /\ data_len = 0
    /\ data_buffer = ZeroBuf
    /\ discard_buf = ZeroBuf
    /\ checksum_rx = 0
    /\ response = <<>>
    /\ i = 0
    /\ rd = NoRead
    /\ now = 0
    /\ gpio = [s \in 0..1 |-> TRUE]
    /\ switch_state = [s \in 0..1 |-> InitSwitch(gpio[s], now)]
    /\ last_reg_check_time = now
    /\ rx = <<>>
    /\ tx = <<>>
    /\ host = [frames |-> 0, pins |-> 0]
    /\ inv = FreshInv(registers, 0, FALSE)
    /\ prev = NoPrev
    /\ log = FreshLog(gpio)

\* what a codec step leaves alone
CodecFrame ==
    UNCHANGED <<header, cmd_type, reg_addr, data_len, data_buffer, discard_buf,
                checksum_rx, response, i, rd, last_reg_check_time,
                switch_state, rx, tx, envVars, host, inv, prev, log>>

\* WRITE_U32_REGISTER(registers, addr, current_pos), as at line 125 of
\* motor_control.c, for a field that lies inside the map
CodecWrite32 ==
    /\ pc = "codec"
    /\ reg_addr + 3 < REGISTER_MAP_SIZE
    /\ registers' = WRITE_U32_REGISTER(registers, reg_addr,
                                       motor_state[0].current_pos)
    /\ pc' = "written32"
    /\ UNCHANGED motor_state
    /\ CodecFrame

\* target_pos = READ_U32_REGISTER(registers, addr), as at line 52
CodecRead32 ==
    /\ pc = "written32"
    /\ motor_state' = [motor_state EXCEPT
                         ![0].target_pos = READ_U32_REGISTER(registers, reg_addr)]
    /\ pc' = "read32"
    /\ UNCHANGED registers
    /\ CodecFrame

\* WRITE_U16_REGISTER(registers, addr, max_speed)
CodecWrite16 ==
    /\ pc = "codec"
    /\ reg_addr + 1 < REGISTER_MAP_SIZE
    /\ registers' = WRITE_U16_REGISTER(registers, reg_addr,
                                       motor_state[0].max_speed)
    /\ pc' = "written16"
    /\ UNCHANGED motor_state
    /\ CodecFrame

\* accel = READ_U16_REGISTER(registers, addr), as at line 54
CodecRead16 ==
    /\ pc = "written16"
    /\ motor_state' = [motor_state EXCEPT
                         ![0].accel = READ_U16_REGISTER(registers, reg_addr)]
    /\ pc' = "read16"
    /\ UNCHANGED registers
    /\ CodecFrame

CodecNext == CodecWrite32 \/ CodecRead32 \/ CodecWrite16 \/ CodecRead16
CodecSpec == CodecInit /\ [][CodecNext]_vars

(***************************************************************************)
(* Vocabulary of the properties.  All of it reads the state the engine     *)
(* left behind; none of it uses the engine's own decision operators.       *)
(***************************************************************************)
\* handle_uart_rx is running (somewhere between its entry and its return)
InEngine == pc \in EnginePcs
\* handle_uart_rx has just returned and no consumer has run since
JustReturned == pc = "motor_ctl"
\* no consumer has touched the map since the invocation began
EngineView == InEngine \/ JustReturned
\* the invocation has read a header
HeaderRead == inv.consumed >= 3
\* the header's range lies in the map and its length within the payload limit
HeaderValid ==
    /\ reg_addr < REGISTER_MAP_SIZE
    /\ reg_addr + data_len <= REGISTER_MAP_SIZE
    /\ data_len <= MAX_PAYLOAD
\* the bytes a frame with this header declares
Declared == IF cmd_type = CMD_READ THEN 4 ELSE 3 + data_len + 1
\* the payload the invocation received
Payload == BufSeq(data_buffer, data_len)
\* cmd XOR addr XOR len XOR (XOR of the payload bytes)
ExpectedChecksum ==
    calculate_checksum(<<cmd_type, reg_addr, data_len>>
                         \o (IF cmd_type = CMD_WRITE THEN Payload ELSE <<>>))
\* the invocation logged event e
Has(e) == \E k \in 1..Len(inv.ev) : inv.ev[k] = e
\* the map the invocation found, with the payload at addr..addr+len-1
MapWithPayload ==
    [a \in RegAddrs |->
       IF a >= reg_addr /\ a < reg_addr + data_len
       THEN data_buffer[a - reg_addr] ELSE inv.regs0[a]]
\* the cells addr..addr+len-1 of the map the invocation found
CellsRead == [k \in 1..data_len |-> inv.regs0[reg_addr + k - 1]]

(***************************************************************************)
(* C2.  A write frame with a valid header and a checksum byte that differs *)
(* from cmd XOR addr XOR len XOR payload is answered with exactly          *)
(* [addr, 0xFF, addr XOR 0xFF] and leaves every cell of the map as it was. *)
(***************************************************************************)
BadWriteReturned ==
    /\ JustReturned
    /\ HeaderRead
    /\ cmd_type = CMD_WRITE
    /\ HeaderValid
    /\ checksum_rx # ExpectedChecksum

C2_BadWriteNackNoChange ==
    BadWriteReturned =>
        /\ inv.out = <<reg_addr, 255, Xor(reg_addr, 255)>>
        /\ registers = inv.regs0

C2_Witness == BadWriteReturned /\ data_len > 0 /\ Payload # CellsRead

(***************************************************************************)
(* C3.  The engine changes the map only for a write frame with a valid     *)
(* header and a matching checksum, and then sets exactly the cells         *)
(* addr..addr+len-1 to the payload; every other frame, rejected or read,   *)
(* leaves the whole map as it was.                                         *)
(***************************************************************************)
GoodWrite ==
    /\ HeaderRead
    /\ cmd_type = CMD_WRITE
    /\ HeaderValid
    /\ inv.consumed = Declared
    /\ checksum_rx = ExpectedChecksum

C3_MapChangedOnlyByAcceptedWrite ==
    EngineView =>
        IF GoodWrite
        THEN /\ \A a \in RegAddrs :
                  registers[a] \in {inv.regs0[a], MapWithPayload[a]}
             /\ JustReturned => registers = MapWithPayload
        ELSE registers = inv.regs0

C3_Witness ==
    /\ JustReturned
    /\ GoodWrite
    /\ data_len > 1
    /\ registers[reg_addr] # inv.regs0[reg_addr]

(***************************************************************************)
(* C4.  Every index at which the engine reads or writes the map is below   *)
(* REGISTER_MAP_SIZE and every index at which it stores into data_buffer   *)
(* or discard_buf is below 17; a header with addr >= MAP_SIZE, addr + len  *)
(* > MAP_SIZE or len > 16 is rejected before any map cell is accessed.     *)
(***************************************************************************)
C4_AccessInBounds ==
    /\ \A a \in inv.acc : a >= 0 /\ a < REGISTER_MAP_SIZE
    /\ \A k \in inv.bufacc : k >= 0 /\ k < BUF_SIZE
    /\ HeaderRead /\ ~HeaderValid =>
         /\ inv.acc = {}
         /\ registers = inv.regs0 \/ ~EngineView
         /\ inv.out = <<>>

C4_Witness ==
    /\ JustReturned
    /\ cmd_type = CMD_WRITE
    /\ reg_addr = REGISTER_MAP_SIZE - 1
    /\ data_len = 2
    /\ inv.bufacc = {0, 1, 2}

(***************************************************************************)
(* Frames as the host sent them.                                           *)
(***************************************************************************)
\* f carries every byte its header declares: header, payload (a write's),
\* checksum
Complete(f) ==
    /\ Len(f) >= 4
    /\ Len(f) = IF f[1] = CMD_WRITE THEN 3 + f[3] + 1 ELSE 4
\* the frames of the log that are whole requests
SentFrames == {k \in 1..Len(log.frames) : Complete(log.frames[k].bytes)}
\* the last byte of frame f is the XOR of the bytes before it
WellSealed(f) ==
    f[Len(f)] = calculate_checksum(SubSeq(f, 1, Len(f) - 1))
\* the frame the invocation is parsing, or has parsed, from its first byte
ParsingFrame(k) == log.frames[k].at = inv.hdrAt /\ inv.readable
\* the invocation answered a read with its data response
ReadAnswered ==
    /\ cmd_type = CMD_READ
    /\ HeaderValid
    /\ inv.out = <<reg_addr, data_len>> \o CellsRead
                   \o <<calculate_checksum(<<reg_addr, data_len>> \o CellsRead)>>
\* the invocation applied a write to the map and answered it with ACK
WriteApplied ==
    /\ cmd_type = CMD_WRITE
    /\ HeaderValid
    /\ registers = MapWithPayload
    /\ inv.out = <<reg_addr, 0, reg_addr>>
\* the invocation accepted the frame it parsed
Accepted == ReadAnswered \/ WriteApplied

(***************************************************************************)
(* C5 as claimed.  For all frames, the trailing checksum byte being the    *)
(* XOR of all preceding frame bytes is necessary and sufficient for the    *)
(* frame to be accepted.                                                   *)
(***************************************************************************)
C5_AsClaimed ==
    \A k \in SentFrames :
        JustReturned /\ ParsingFrame(k) =>
            (WellSealed(log.frames[k].bytes) <=> Accepted)

(***************************************************************************)
(* C5 as amended.  A frame is accepted if and only if its command is read  *)
(* or write, its header passes validation and its checksum byte is the XOR *)
(* of the bytes before it: the matching checksum is necessary for every    *)
(* frame, and sufficient for those with a known command and a valid header.*)
(***************************************************************************)
C5_AcceptedIffValidAndSealed ==
    JustReturned /\ HeaderRead =>
        (Accepted <=> /\ cmd_type \in {CMD_READ, CMD_WRITE}
                      /\ HeaderValid
                      /\ inv.consumed = Declared
                      /\ checksum_rx = ExpectedChecksum)

C5_Witness ==
    /\ JustReturned
    /\ HeaderRead
    /\ cmd_type = CMD_READ
    /\ data_len > 0
    /\ Accepted
    /\ \E k \in SentFrames : ParsingFrame(k) /\ WellSealed(log.frames[k].bytes)

(***************************************************************************)
(* C6 as claimed.  For every write frame whose header has addr + len =     *)
(* MAP_SIZE + 1 the engine sends no ACK, and the map is not changed by the *)
(* time all bytes of the frame have been consumed: no invocation that      *)
(* takes its header from the bytes of such a frame stores to the map or    *)
(* emits a response.                                                       *)
(***************************************************************************)
\* frame k is a write request declaring a range that ends one past the map
OnePastMap(k) ==
    LET f == log.frames[k].bytes
    IN  f[1] = CMD_WRITE /\ f[2] + f[3] = REGISTER_MAP_SIZE + 1
\* the engine began a header read at the first byte of frame k
Aligned(k) == log.frames[k].at \in log.starts
\* the invocation takes its header from the bytes of frame k
HeaderInside(k) ==
    /\ inv.readable
    /\ inv.hdrAt >= log.frames[k].at
    /\ inv.hdrAt < log.frames[k].at + Len(log.frames[k].bytes)
\* the invocation has neither stored to the map nor emitted anything
NoEffect ==
    /\ inv.out = <<>>
    /\ ~Has("store")
    /\ EngineView => registers = inv.regs0

C6_AsClaimed ==
    \A k \in SentFrames :
        OnePastMap(k) /\ Aligned(k) /\ HeaderInside(k) => NoEffect

(***************************************************************************)
(* C6 as amended.  The invocation that parses the header of a write frame  *)
(* with addr + len = MAP_SIZE + 1 emits nothing and leaves the map as it   *)
(* was.  If len <= 16 it consumes the whole frame (3 + len + 1 bytes), so  *)
(* no other invocation takes its header from the frame's bytes; if         *)
(* len > 16 it consumes the 3 header bytes only.                           *)
(***************************************************************************)
C6_OnePastMapRejected ==
    /\ HeaderRead /\ cmd_type = CMD_WRITE
         /\ reg_addr + data_len = REGISTER_MAP_SIZE + 1 =>
           /\ NoEffect
           /\ pc \in LoopPcs =>
                inv.consumed = IF data_len <= MAX_PAYLOAD THEN 3 + data_len + 1
                               ELSE 3
    /\ \A k \in SentFrames :
         /\ OnePastMap(k)
         /\ Aligned(k)
         /\ HeaderInside(k)
         /\ log.frames[k].bytes[3] <= MAX_PAYLOAD
         => inv.hdrAt = log.frames[k].at /\ NoEffect

C6_Witness ==
    /\ JustReturned
    /\ HeaderRead
    /\ cmd_type = CMD_WRITE
    /\ reg_addr + data_len = REGISTER_MAP_SIZE + 1
    /\ data_len <= MAX_PAYLOAD
    /\ inv.consumed = 3 + data_len + 1
    /\ \E k \in SentFrames : OnePastMap(k) /\ ParsingFrame(k)

(***************************************************************************)
(* C7.  The engine emits no response byte and changes no map cell for a    *)
(* frame before it has consumed all bytes the frame declares (4 for a      *)
(* read, 3 + len + 1 for a write) and compared the checksum; while the     *)
(* declared bytes have only partly arrived the frame is not handled.       *)
(***************************************************************************)
C7_NoEffectBeforeWholeFrame ==
    ~NoEffect =>
        /\ HeaderRead
        /\ cmd_type \in {CMD_READ, CMD_WRITE}
        /\ inv.consumed = Declared
        /\ Has("ck_ok") \/ Has("ck_fail")

\* a response has gone out for a frame the engine had to wait for, past
\* its header
C7_Witness ==
    /\ JustReturned
    /\ inv.out # <<>>
    /\ \E n \in inv.waitedAt : n >= 3

(***************************************************************************)
(* C8.  An invocation of handle_uart_rx that has returned consumed either  *)
(* no byte or at least the 3 header bytes; one entered when no byte was    *)
(* readable consumed nothing, emitted nothing and left the map as it was.  *)
(***************************************************************************)
C8_HeaderWholeOrUntouched ==
    pc \in LoopPcs =>
        /\ inv.consumed = 0 \/ inv.consumed >= 3
        /\ inv.readable => inv.consumed >= 3
        /\ ~inv.readable =>
             /\ inv.consumed = 0
             /\ inv.out = <<>>
             /\ inv.ev = <<>>
             /\ JustReturned => registers = inv.regs0

\* an invocation has returned that stood waiting inside the header
C8_Witness ==
    /\ JustReturned
    /\ HeaderRead
    /\ \E n \in inv.waitedAt : n \in {1, 2}

(***************************************************************************)
(* C9.  Within one frame the events come in the order header validation,   *)
(* checksum validation, map mutation (accepted writes only), response      *)
(* emission; none comes before an earlier one, and none comes after an     *)
(* earlier one failed, except the NACK after a failed write checksum.      *)
(***************************************************************************)
Stage(e) ==
    CASE e \in {"hdr_ok", "hdr_fail"} -> 1
      [] e \in {"ck_ok", "ck_fail"} -> 2
      [] e = "store" -> 3
      [] e = "resp" -> 4

C9_EventOrder ==
    LET ev == inv.ev
        n == Len(ev)
    IN  /\ \A j \in 1..n : \A k \in 1..n :
              j < k => \/ Stage(ev[j]) < Stage(ev[k])
                       \/ ev[j] = "store" /\ ev[k] = "store"
        /\ n > 0 => Stage(ev[1]) = 1
        /\ n > 1 => Stage(ev[2]) = 2
        /\ Has("hdr_fail") => n = 1
        /\ Has("ck_fail") => /\ ~Has("store")
                             /\ Has("resp") => cmd_type = CMD_WRITE
        /\ Has("store") => cmd_type = CMD_WRITE
        /\ inv.out # <<>> => Has("resp")
        /\ EngineView /\ registers # inv.regs0 => Has("store")

C9_Witness ==
    /\ JustReturned
    /\ inv.ev = <<"hdr_ok", "ck_ok", "store", "store", "store", "store", "resp">>

(***************************************************************************)
(* C10.  Frames are processed in arrival order, one at a time: an          *)
(* invocation reads at most one header and emits at most one response;     *)
(* the responses lie on the output in the order of the headers they        *)
(* answer; and for a stream of well-formed frames the k-th response        *)
(* answers the k-th frame and is out before any byte of frame k+1 is       *)
(* consumed.                                                               *)
(***************************************************************************)
RECURSIVE Flatten(_)
Flatten(q) == IF q = <<>> THEN <<>> ELSE Head(q).bytes \o Flatten(Tail(q))

\* a whole, well-sealed read or write request with a valid header
WellFormed(f) ==
    /\ Complete(f)
    /\ f[1] \in {CMD_READ, CMD_WRITE}
    /\ f[2] < REGISTER_MAP_SIZE
    /\ f[2] + f[3] <= REGISTER_MAP_SIZE
    /\ f[3] <= MAX_PAYLOAD
    /\ WellSealed(f)

WellFormedStream ==
    \A k \in 1..Len(log.frames) : WellFormed(log.frames[k].bytes)

\* events e of the invocation, counted
Count(e) == Cardinality({k \in 1..Len(inv.ev) : inv.ev[k] = e})

C10_ArrivalOrder ==
    LET n == Len(log.answers)
    IN  /\ Count("hdr_ok") + Count("hdr_fail") <= 1
        /\ Count("resp") <= 1
        /\ inv.consumed <= 3 + MAX_PAYLOAD + 1
        /\ tx = Flatten(log.answers)
        /\ \A j \in 1..n : \A k \in 1..n :
              j < k => log.answers[j].at < log.answers[k].at
        /\ WellFormedStream =>
             /\ n <= Len(log.frames)
             /\ \A k \in 1..n :
                  /\ log.answers[k].at = log.frames[k].at
                  /\ log.answers[k].bytes[1] = log.frames[k].bytes[2]
             /\ \A k \in 1..Len(log.frames) :
                  log.nread > log.frames[k].at => n >= k - 1

\* two well-formed frames were on the line together and both are answered
C10_Witness ==
    /\ WellFormedStream
    /\ Len(log.answers) = 2
    /\ log.answers[1].bytes # log.answers[2].bytes
    /\ log.frames[2].at = Len(log.frames[1].bytes)

(***************************************************************************)
(* Round trip: an accepted read that directly follows, in the stream, an   *)
(* accepted write of the same address and length.                          *)
(***************************************************************************)
RoundTrip ==
    /\ JustReturned
    /\ HeaderRead
    /\ cmd_type = CMD_READ
    /\ Has("resp")
    /\ prev.accepted
    /\ prev.cmd = CMD_WRITE
    /\ prev.addr = reg_addr
    /\ prev.len = data_len

\* the data bytes of the read response
ResponsePayload == SubSeq(inv.out, 3, 2 + data_len)

\* the cells a consumer writes: update_motor_status_registers (the status
\* byte and the two current positions), update_switch_status_registers (the
\* switch status) and update_motor_control_from_registers (the start and
\* stop bits of the two control registers)
ConsumerCells ==
    {REG_STATUS, REG_SWITCH_STATUS, REG_MOTOR1_CONTROL, REG_MOTOR2_CONTROL}
      \cup REG_MOTOR1_CURRENT_POS_L..(REG_MOTOR1_CURRENT_POS_L + 3)
      \cup REG_MOTOR2_CURRENT_POS_L..(REG_MOTOR2_CURRENT_POS_L + 3)

(***************************************************************************)
(* C1 as claimed.  For every (addr, len) in the map with len <= 16 and     *)
(* every payload, a well-formed write frame directly followed by a         *)
(* well-formed read frame at the same (addr, len) is answered with exactly *)
(* the written bytes.                                                      *)
(***************************************************************************)
C1_AsClaimed == RoundTrip => ResponsePayload = prev.data

(***************************************************************************)
(* C1 as amended.  The read response carries the written byte at every     *)
(* cell of addr..addr+len-1 that no consumer writes; the consumers run     *)
(* between the two invocations and may have overwritten the others.        *)
(***************************************************************************)
C1_RoundTripOffConsumerCells ==
    RoundTrip =>
        \A k \in 1..data_len :
            (reg_addr + k - 1) \notin ConsumerCells
                => ResponsePayload[k] = prev.data[k]

C1_Witness ==
    /\ RoundTrip
    /\ ResponsePayload # prev.data
    /\ \E k \in 1..data_len :
         (reg_addr + k - 1) \notin ConsumerCells /\ prev.data[k] # 0

(***************************************************************************)
(* C11.  When a header fails validation (addr >= MAP_SIZE, addr + len >    *)
(* MAP_SIZE or len > 16) the engine emits no response and consumes exactly *)
(* 4 bytes for a read, 3 + len + 1 for a write with len <= 16 and 3 for a  *)
(* write with len > 16; in the first two cases a well-formed frame that    *)
(* follows immediately is parsed from its own first byte and accepted.     *)
(***************************************************************************)
\* the header of frame f fails validation
FrameHeaderInvalid(f) ==
    \/ f[2] >= REGISTER_MAP_SIZE
    \/ f[2] + f[3] > REGISTER_MAP_SIZE
    \/ f[3] > MAX_PAYLOAD
\* frame f is a whole read or write request whose header fails validation
\* and whose declared length the engine can discard
Discardable(f) ==
    /\ Complete(f)
    /\ FrameHeaderInvalid(f)
    /\ f[1] = CMD_READ \/ (f[1] = CMD_WRITE /\ f[3] <= MAX_PAYLOAD)
\* the invocation has returned from a read or write header that failed
\* validation
RejectedHeaderReturned ==
    /\ pc \in LoopPcs
    /\ HeaderRead
    /\ ~HeaderValid
    /\ cmd_type \in {CMD_READ, CMD_WRITE}

C11_RejectedHeaderRealigns ==
    /\ HeaderRead /\ ~HeaderValid => inv.out = <<>>
    /\ RejectedHeaderReturned =>
         inv.consumed = IF cmd_type = CMD_READ THEN 4
                        ELSE IF data_len <= MAX_PAYLOAD THEN 3 + data_len + 1
                        ELSE 3
    /\ \A k \in 1..(Len(log.frames) - 1) :
         /\ Discardable(log.frames[k].bytes)
         /\ Aligned(k)
         /\ WellFormed(log.frames[k + 1].bytes)
         => /\ \A s \in log.starts :
                 ~(s > log.frames[k].at /\ s < log.frames[k + 1].at)
            /\ log.nread > log.frames[k + 1].at => Aligned(k + 1)
            /\ JustReturned /\ ParsingFrame(k + 1) => Accepted

\* a well-formed write has been applied right behind a write whose header
\* failed validation and whose payload and checksum were discarded
C11_Witness ==
    /\ JustReturned
    /\ Len(log.frames) = 2
    /\ Discardable(log.frames[1].bytes)
    /\ log.frames[1].bytes[1] = CMD_WRITE
    /\ log.frames[1].bytes[3] > 0
    /\ ParsingFrame(2)
    /\ inv.hdrAt = Len(log.frames[1].bytes)
    /\ cmd_type = CMD_WRITE
    /\ data_len > 0
    /\ Accepted

(***************************************************************************)
(* C12.  A read request with a valid header whose checksum byte differs    *)
(* from 0x01 XOR addr XOR len produces no output byte, leaves the map      *)
(* unchanged and consumes exactly 4 bytes, so that the next header is read *)
(* from the byte that follows it.                                          *)
(***************************************************************************)
\* the invocation has received the four bytes of a read request with a valid
\* header and a wrong checksum
BadReadReceived ==
    /\ HeaderRead
    /\ cmd_type = CMD_READ
    /\ HeaderValid
    /\ inv.consumed >= 4
    /\ checksum_rx # Xor(Xor(CMD_READ, reg_addr), data_len)
\* frame f is a read request with a valid header and a wrong checksum
BadReadFrame(f) ==
    /\ Complete(f)
    /\ f[1] = CMD_READ
    /\ f[2] < REGISTER_MAP_SIZE
    /\ f[2] + f[3] <= REGISTER_MAP_SIZE
    /\ f[3] <= MAX_PAYLOAD
    /\ f[4] # Xor(Xor(CMD_READ, f[2]), f[3])

C12_BadReadSilent ==
    /\ BadReadReceived =>
         /\ inv.out = <<>>
         /\ inv.consumed = 4
         /\ inv.acc = {}
         /\ ~Has("store")
         /\ EngineView => registers = inv.regs0
    /\ \A k \in 1..Len(log.frames) :
         BadReadFrame(log.frames[k].bytes) /\ Aligned(k) =>
           /\ \A s \in log.starts :
                ~(s > log.frames[k].at /\ s < log.frames[k].at + 4)
           /\ \A j \in 1..Len(log.answers) :
                log.answers[j].at # log.frames[k].at
           /\ log.nread > log.frames[k].at + 4 =>
                (log.frames[k].at + 4) \in log.starts

\* a read request with a wrong checksum has been dropped, of cells that an
\* earlier write had filled, and the line holds a further frame
C12_Witness ==
    /\ JustReturned
    /\ BadReadReceived
    /\ data_len > 0
    /\ \E k \in 1..data_len : CellsRead[k] # 0
    /\ \E k \in 1..Len(log.frames) :
         BadReadFrame(log.frames[k].bytes) /\ ParsingFrame(k)

(***************************************************************************)
(* C13.  For a header whose command byte is neither 0x01 nor 0x02 (any     *)
(* addr, any len) the invocation consumes exactly the 3 header bytes,      *)
(* emits no response, leaves the map unchanged and returns, so the next    *)
(* invocation starts parsing a header at the very next stream byte.        *)
(***************************************************************************)
\* the invocation has read a header with an unknown command byte
UnknownCommandRead == HeaderRead /\ cmd_type \notin {CMD_READ, CMD_WRITE}

C13_UnknownCommandDropped ==
    /\ UnknownCommandRead =>
         /\ inv.consumed = 3
         /\ NoEffect
         /\ inv.acc = {}
         /\ pc \in LoopPcs \cup {"validate"}
    /\ \A s \in log.starts :
         /\ s + 3 <= log.nread
         /\ \E k \in 1..Len(log.frames) :
              LET f == log.frames[k] IN
              /\ s >= f.at /\ s < f.at + Len(f.bytes)
              /\ f.bytes[s - f.at + 1] \notin {CMD_READ, CMD_WRITE}
         => /\ \A t \in log.starts : ~(t > s /\ t < s + 3)
            /\ \A j \in 1..Len(log.answers) : log.answers[j].at # s
            /\ log.nread > s + 3 => (s + 3) \in log.starts

\* a second header with an unknown command has been dropped, read from the
\* byte right behind the three of a first one
C13_Witness ==
    /\ JustReturned
    /\ UnknownCommandRead
    /\ inv.hdrAt = 3
    /\ Len(log.frames) > 0
    /\ log.frames[1].bytes[1] \notin {CMD_READ, CMD_WRITE}

\* a consumer is about to be invoked
ConsumerCall == pc \in {"motor_ctl", "switch", "motor_status"}
\* the cells addr..addr+len-1 of the header the invocation read
WrittenRange == {a \in RegAddrs : a >= reg_addr /\ a < reg_addr + data_len}

(***************************************************************************)
(* C14 as claimed.  No consumer runs between two byte stores of one write  *)
(* frame's payload, so at every consumer invocation the range written by   *)
(* the frame holds either entirely its old bytes or entirely the frame's   *)
(* payload, never a mix.                                                   *)
(***************************************************************************)
C14_AsClaimed ==
    ConsumerCall /\ HeaderRead /\ cmd_type = CMD_WRITE /\ HeaderValid =>
        \/ \A a \in WrittenRange : registers[a] = inv.regs0[a]
        \/ \A a \in WrittenRange : registers[a] = data_buffer[a - reg_addr]

(***************************************************************************)
(* C14 as amended.  No consumer runs between two byte stores of one write  *)
(* frame's payload: whenever a consumer is invoked the last engine         *)
(* invocation has stored either none or all of its payload bytes.  The     *)
(* range a frame writes holds entirely its old bytes or entirely the       *)
(* payload when the first consumer is invoked, and at every later consumer *)
(* invocation in every cell that no consumer writes.                       *)
(***************************************************************************)
\* the cells of the range addr..addr+len-1 that no consumer writes
OwnRange == WrittenRange \ ConsumerCells

C14_NoTornWrite ==
    /\ pc \in LoopPcs =>
         \/ Count("store") = 0
         \/ cmd_type = CMD_WRITE /\ Count("store") = data_len
    /\ JustReturned => registers = inv.regs0 \/ registers = MapWithPayload
    /\ ConsumerCall /\ Has("store") =>
         \A a \in OwnRange : registers[a] = data_buffer[a - reg_addr]
    /\ ConsumerCall /\ ~Has("store") =>
         \A a \in RegAddrs \ ConsumerCells : registers[a] = inv.regs0[a]

\* a consumer is invoked, after another one, behind a write of several bytes
C14_Witness ==
    /\ pc = "switch"
    /\ cmd_type = CMD_WRITE
    /\ Count("store") = data_len
    /\ data_len > 1
    /\ \E a \in OwnRange : registers[a] # inv.regs0[a]
    /\ \E a \in OwnRange : registers[a] = inv.regs0[a]

(***************************************************************************)
(* C15.  There is no frame timeout: while handle_uart_rx waits in          *)
(* uart_read_blocking for a byte of the header, the payload or the         *)
(* checksum and no byte is on the line, the only thing that can happen is  *)
(* the arrival of bytes; the invocation does not return, no consumer is    *)
(* invoked, and neither the map nor the consumers' state nor the output    *)
(* changes.  If the bytes never arrive this lasts for ever.                *)
(***************************************************************************)
\* handle_uart_rx has consumed at least one byte and waits for the next one
Stalled == pc = "read" /\ rx = <<>>

C15_NoFrameTimeout ==
    [][Stalled =>
         /\ pc' = "read"
         /\ rx' # <<>>
         /\ rd' = rd
         /\ registers' = registers
         /\ motor_state' = motor_state
         /\ switch_state' = switch_state
         /\ last_reg_check_time' = last_reg_check_time
         /\ tx' = tx
         /\ inv'.consumed = inv.consumed]_vars

\* the engine waits inside a write's payload and the host sends no more
C15_Witness ==
    /\ Stalled
    /\ host.frames = MaxFrames
    /\ cmd_type = CMD_WRITE
    /\ HeaderValid
    /\ inv.consumed > 3
    /\ inv.consumed < Declared

\* the invocation has sent neither a data response nor an ACK (at most a
\* NACK) and has not changed the map
Rejected ==
    /\ inv.out = <<>> \/ inv.out = <<reg_addr, 255, Xor(reg_addr, 255)>>
    /\ ~Has("store")
    /\ EngineView => registers = inv.regs0
\* f is an accepted request with its p-th byte changed
CorruptedAt(f, p) ==
    \E n \in 1..Len(AcceptedFrames) :
        LET b == AcceptedFrames[n]
        IN  /\ Len(b) = Len(f)
            /\ f[p] # b[p]
            /\ \A q \in 1..Len(b) : q # p => f[q] = b[q]
\* frame k of the run is the corrupted one
IsFlipped(k) == ~IsAccepted(log.frames[k].bytes)
\* f is a write request with its length byte changed
WriteLenFlip(f) == f[1] = CMD_WRITE /\ CorruptedAt(f, 3)
\* f is a request changed in its address, payload or checksum
BodyFlip(f) == \E p \in 1..Len(f) : p \notin {1, 3} /\ CorruptedAt(f, p)

(***************************************************************************)
(* C16 as claimed.  Flipping any single bit in any one byte (cmd, addr,    *)
(* len, payload or checksum) of an accepted frame inside a stream of       *)
(* further frames causes the frame to be rejected: the invocation that     *)
(* parses it emits no data response and no ACK and does not change the     *)
(* map.                                                                    *)
(***************************************************************************)
C16_AsClaimed ==
    \A k \in 1..Len(log.frames) :
        ParsingFrame(k) /\ IsFlipped(k) => Rejected

(***************************************************************************)
(* C16 as amended.  Flipping a single bit in the cmd, addr, payload or     *)
(* checksum byte of an accepted frame, or in the len byte of an accepted   *)
(* read frame, causes the invocation that parses the frame to reject it:   *)
(* no data response, no ACK, no change of the map; with the flip in addr,  *)
(* payload or checksum it consumes exactly the frame's bytes.  A flip in   *)
(* the len byte of a write frame is excepted.                              *)
(***************************************************************************)
C16_FlipRejectedUnlessWriteLength ==
    \A k \in 1..Len(log.frames) :
        LET f == log.frames[k].bytes IN
        ParsingFrame(k) /\ IsFlipped(k) /\ ~WriteLenFlip(f) =>
            /\ Rejected
            /\ BodyFlip(f) /\ pc \in LoopPcs => inv.consumed = Len(f)

\* a write with a bit of its payload inverted has been refused with a NACK,
\* behind an accepted frame
C16_Witness ==
    /\ JustReturned
    /\ inv.hdrAt > 0
    /\ cmd_type = CMD_WRITE
    /\ inv.out = <<reg_addr, 255, Xor(reg_addr, 255)>>
    /\ \E k \in 1..Len(log.frames) :
         /\ ParsingFrame(k)
         /\ BodyFlip(log.frames[k].bytes)
         /\ log.frames[k].bytes[2] = REG_MOTOR1_TARGET_POS_L

(***************************************************************************)
(* C17.  The frame [0x02, 0x11, 0x04, 0x64, 0x00, 0x00, 0x00, checksum]    *)
(* is answered with the ACK [0x11, 0x00, 0x11], and a subsequent read      *)
(* frame [0x01, 0x11, 0x04, checksum] is answered with [0x11, 0x04, 0x64,  *)
(* 0x00, 0x00, 0x00, c], c the XOR of the six bytes before it, whatever    *)
(* the consumers do in the main-loop iterations in between.                *)
(***************************************************************************)
\* the scenario's write is among the frames sent before frame j
WrittenBefore(j) ==
    \E k \in 1..(j - 1) : log.frames[k].bytes = <<2, 17, 4, 100, 0, 0, 0, 115>>

C17_TargetPositionScenario ==
    \A k \in 1..Len(log.frames) :
        JustReturned /\ ParsingFrame(k) =>
            /\ log.frames[k].bytes = <<2, 17, 4, 100, 0, 0, 0, 115>> =>
                 /\ inv.out = <<17, 0, 17>>
                 /\ inv.consumed = 8
            /\ log.frames[k].bytes = <<1, 17, 4, 20>> /\ WrittenBefore(k) =>
                 /\ Len(inv.out) = 7
                 /\ SubSeq(inv.out, 1, 6) = <<17, 4, 100, 0, 0, 0>>
                 /\ inv.out[7] =
                      Xor(Xor(Xor(Xor(Xor(17, 4), 100), 0), 0), 0)

\* the read is answered while the motor, started in between, is on its way
C17_Witness ==
    /\ JustReturned
    /\ Len(log.frames) = 3
    /\ ParsingFrame(3)
    /\ log.frames[1].bytes = ScenarioWrite
    /\ log.frames[2].bytes = WriteFrame(REG_MOTOR1_CONTROL, <<1>>)
    /\ log.frames[3].bytes = ScenarioRead
    /\ inv.out # <<>>
    /\ motor_state[0].moving
    /\ motor_state[0].current_pos > 1

(***************************************************************************)
(* C18.  For every addr < MAP_SIZE a correctly checksummed read request    *)
(* with len = 0 is answered with exactly the three bytes                   *)
(* [addr, 0, addr XOR 0], and no map cell is read or changed.              *)
(***************************************************************************)
\* the invocation has returned from a well-sealed request of length 0
ZeroLenReturned(cmd) ==
    /\ JustReturned
    /\ HeaderRead
    /\ cmd_type = cmd
    /\ reg_addr < REGISTER_MAP_SIZE
    /\ data_len = 0
    /\ inv.consumed >= 4
    /\ checksum_rx = Xor(Xor(cmd, reg_addr), 0)

C18_ZeroLengthRead ==
    ZeroLenReturned(CMD_READ) =>
        /\ inv.out = <<reg_addr, 0, Xor(reg_addr, 0)>>
        /\ inv.acc = {}
        /\ registers = inv.regs0
        /\ inv.consumed = 4

\* a read of length 0 at the last cell of the map has been answered, after
\* the consumers have filled the status register
C18_Witness ==
    /\ ZeroLenReturned(CMD_READ)
    /\ reg_addr = REGISTER_MAP_SIZE - 1
    /\ inv.out # <<>>
    /\ registers[REG_STATUS] # 0

(***************************************************************************)
(* C19.  For every addr < MAP_SIZE a correctly checksummed write request   *)
(* with len = 0 consumes exactly 4 bytes (header and checksum, no          *)
(* payload), leaves every map cell unchanged and is answered with the ACK  *)
(* [addr, 0x00, addr].                                                     *)
(***************************************************************************)
C19_ZeroLengthWrite ==
    ZeroLenReturned(CMD_WRITE) =>
        /\ inv.consumed = 4
        /\ registers = inv.regs0
        /\ inv.acc = {}
        /\ inv.bufacc = {}
        /\ ~Has("store")
        /\ inv.out = <<reg_addr, 0, reg_addr>>

\* a write of length 0 at the last cell of the map has been acknowledged,
\* after the consumers have filled the status register
C19_Witness ==
    /\ ZeroLenReturned(CMD_WRITE)
    /\ reg_addr = REGISTER_MAP_SIZE - 1
    /\ inv.out # <<>>
    /\ registers[REG_STATUS] # 0

(***************************************************************************)
(* C20.  calculate_checksum returns the XOR of all bytes of its input (0   *)
(* for the empty sequence); for all byte sequences a and b,                *)
(* checksum(a ++ b) = checksum(a) XOR checksum(b); and the result is the   *)
(* same for every permutation of the input bytes.                          *)
(***************************************************************************)
\* the input of the call that has returned, and its result
ChecksumInput == SubSeq(response, 1, Len(response) - 1)
ChecksumResult == response[Len(response)]
\* bit k of the XOR of the bytes of data: set if and only if an odd number
\* of them have it set
ParityBit(data, k) ==
    Cardinality({j \in 1..Len(data) : (data[j] \div Pow2(k)) % 2 = 1}) % 2
\* the XOR of the bytes of data, bit by bit
XorOfAll(data) ==
    ParityBit(data, 0) + 2 * ParityBit(data, 1) + 4 * ParityBit(data, 2)
      + 8 * ParityBit(data, 3) + 16 * ParityBit(data, 4)
      + 32 * ParityBit(data, 5) + 64 * ParityBit(data, 6)
      + 128 * ParityBit(data, 7)
\* the XOR of two bytes, bit by bit
XorOfTwo(a, b) == XorOfAll(<<a, b>>)
\* the orders in which n bytes can stand
ByteOrders(n) ==
    {p \in [1..n -> 1..n] : \A x \in 1..n : \A y \in 1..n : p[x] = p[y] => x = y}

C20_ChecksumIsXorFold ==
    pc = "sealed" =>
        LET data == ChecksumInput
            n == Len(data)
        IN  /\ ChecksumResult = XorOfAll(data)
            /\ data = <<>> => ChecksumResult = 0
            /\ \A k \in 0..n :
                 ChecksumResult =
                     XorOfTwo(calculate_checksum(SubSeq(data, 1, k)),
                              calculate_checksum(SubSeq(data, k + 1, n)))
            /\ \A p \in ByteOrders(n) :
                 calculate_checksum([j \in 1..n |-> data[p[j]]])
                     = ChecksumResult

\* the checksum of three different bytes, not all bits of which cancel
C20_Witness ==
    /\ pc = "sealed"
    /\ Len(ChecksumInput) = 3
    /\ ChecksumInput[1] # ChecksumInput[2]
    /\ ChecksumInput[2] # ChecksumInput[3]
    /\ ChecksumInput[1] # ChecksumInput[3]
    /\ ChecksumResult \notin {0, ChecksumInput[1], ChecksumInput[2],
                              ChecksumInput[3]}

(***************************************************************************)
(* C21.  The 16- and 32-bit register codecs are byte-exact little-endian   *)
(* and round-trip: for every addr with the field inside the map and every  *)
(* value v, WRITE_U32_REGISTER sets cell addr+k to byte k of v (k = 0..3,  *)
(* least significant first) and changes no other cell, READ_U32_REGISTER   *)
(* then returns v, and likewise WRITE_U16_REGISTER / READ_U16_REGISTER     *)
(* with two bytes.                                                         *)
(***************************************************************************)
\* the bytes b0..b3 are those of the 32-bit value v, least significant
\* first; v stands for its bit pattern, so the top byte of a negative v is
\* 128 or more
IsLittleEndian32(b0, b1, b2, b3, v) ==
    /\ {b0, b1, b2, b3} \subseteq Byte
    /\ v < 0 <=> b3 >= 128
    /\ b0 + 256 * b1 + 65536 * b2
         + 16777216 * (IF v < 0 THEN b3 - 256 ELSE b3) = v
\* the bytes b0, b1 are those of the 16-bit value v, least significant first
IsLittleEndian16(b0, b1, v) ==
    /\ {b0, b1} \subseteq Byte
    /\ b0 + 256 * b1 = v
\* the map holds what it held before the codec ran outside addr..addr+n-1
OnlyFieldChanged(n) ==
    \A a \in RegAddrs :
        a < reg_addr \/ a >= reg_addr + n => registers[a] = CodecFill[a]

C21_CodecsLittleEndianRoundTrip ==
    /\ pc \in {"written32", "read32"} =>
         /\ IsLittleEndian32(registers[reg_addr], registers[reg_addr + 1],
                             registers[reg_addr + 2], registers[reg_addr + 3],
                             motor_state[0].current_pos)
         /\ OnlyFieldChanged(4)
    /\ pc = "read32" =>
         motor_state[0].target_pos = motor_state[0].current_pos
    /\ pc \in {"written16", "read16"} =>
         /\ IsLittleEndian16(registers[reg_addr], registers[reg_addr + 1],
                             motor_state[0].max_speed)
         /\ OnlyFieldChanged(2)
    /\ pc = "read16" => motor_state[0].accel = motor_state[0].max_speed

\* 0x12345678 has gone through the last four cells of the map
C21_Witness ==
    /\ pc = "read32"
    /\ reg_addr = REGISTER_MAP_SIZE - 4
    /\ motor_state[0].target_pos = 305419896
    /\ registers[reg_addr] = 120
    /\ registers[reg_addr + 3] = 18

\* the registers of motor m (0 or 1)
MotorRegs(m) ==
    IF m = 0
    THEN [ctl |-> REG_MOTOR1_CONTROL, tgt |-> REG_MOTOR1_TARGET_POS_L,
          spd |-> REG_MOTOR1_MAX_SPEED_L, acc |-> REG_MOTOR1_ACCEL_L,
          cur |-> REG_MOTOR1_CURRENT_POS_L]
    ELSE [ctl |-> REG_MOTOR2_CONTROL, tgt |-> REG_MOTOR2_TARGET_POS_L,
          spd |-> REG_MOTOR2_MAX_SPEED_L, acc |-> REG_MOTOR2_ACCEL_L,
          cur |-> REG_MOTOR2_CURRENT_POS_L]
\* this step is a call of update_motor_control_from_registers that gets
\* past the interval test of line 44
PeriodicCheck ==
    /\ pc = "motor_ctl"
    /\ pc' = "switch"
    /\ Sub32(now', last_reg_check_time) >= REG_CHECK_INTERVAL_US
\* what the periodic check does for motor m when its start bit is set, the
\* map cells outside Touched staying as they were
StartProcessed(m, Touched) ==
    LET r == MotorRegs(m) IN
    /\ ~BitIsSet(registers'[r.ctl], 0)
    /\ registers'[r.ctl] \div 4 = registers[r.ctl] \div 4
    /\ \A a \in RegAddrs \ Touched : registers'[a] = registers[a]
    /\ motor_state'[m].target_pos = READ_U32_REGISTER(registers, r.tgt)
    /\ motor_state'[m].max_speed = READ_U16_REGISTER(registers, r.spd)
    /\ motor_state'[m].accel = READ_U16_REGISTER(registers, r.acc)

(***************************************************************************)
(* C22 as claimed.  Whenever update_motor_control_from_registers performs  *)
(* its periodic check and the start bit of a motor's control register is   *)
(* set, then after the call that bit is clear, bits 2..7 of the control    *)
(* register and every other map cell are unchanged, and the motor's        *)
(* target, max speed and acceleration are the decodings of its registers   *)
(* as they were at the call.                                               *)
(***************************************************************************)
C22_AsClaimed ==
    [][PeriodicCheck =>
         \A m \in 0..1 :
             BitIsSet(registers[MotorRegs(m).ctl], 0) =>
                 StartProcessed(m, {MotorRegs(m).ctl})]_vars

(***************************************************************************)
(* C22.  Whenever update_motor_control_from_registers performs its         *)
(* periodic check and the start bit of a motor's control register is set,  *)
(* then after the call that bit is clear, bits 2..7 of both control        *)
(* registers and every cell other than the two control registers are       *)
(* unchanged, and the motor's target, max speed and acceleration are the   *)
(* little-endian decodings of its registers as they were at the call.  The *)
(* other motor's control register loses its own start and stop bits in the *)
(* same call.                                                              *)
(***************************************************************************)
C22_StartBitProcessed ==
    [][PeriodicCheck =>
         /\ \A m \in 0..1 :
                BitIsSet(registers[MotorRegs(m).ctl], 0) =>
                    StartProcessed(m, {REG_MOTOR1_CONTROL, REG_MOTOR2_CONTROL})
         /\ \A m \in 0..1 :
                /\ registers'[MotorRegs(m).ctl] \div 4
                     = registers[MotorRegs(m).ctl] \div 4
                /\ registers'[MotorRegs(m).ctl] % 4 = 0]_vars

\* one periodic check has processed a start for motor 1 and a start with a
\* stop for motor 2
C22_Witness ==
    /\ pc = "switch"
    /\ last_reg_check_time = now
    /\ now >= REG_CHECK_INTERVAL_US
    /\ registers[REG_MOTOR1_CONTROL] = 252
    /\ motor_state[0].moving
    /\ motor_state[0].target_pos = 2
    /\ motor_state[0].max_speed = 4660
    /\ motor_state[0].accel = 22136
    /\ registers[REG_MOTOR2_CONTROL] = 0
    /\ ~motor_state[1].moving
    /\ motor_state[1].target_pos = -1

\* the main loop stands between two iterations: update_motor_status_registers
\* has returned and handle_uart_rx has not begun
IterationEnd == pc = "uart"
\* motor m's moving bit of the status byte in the map
MovingBit(m) == BitIsSet(registers[REG_STATUS], m + 1)
\* motor m's current position as the map tells it
CurrentPosRegister(m) == READ_U32_REGISTER(registers, MotorRegs(m).cur)

(***************************************************************************)
(* C23 as claimed.  At the end of every main-loop iteration bit 1 of       *)
(* REG_STATUS is set if and only if motor 1 is in the moving state and     *)
(* bit 2 if and only if motor 2 is in the moving state; the map never      *)
(* shows a moving bit together with a current position equal to the target *)
(* of a move that has finished.                                            *)
(***************************************************************************)
C23_AsClaimed ==
    IterationEnd => \A m \in 0..1 : MovingBit(m) <=> motor_state[m].moving

\* the iteration in which motor 1 reached its target 1 has ended: the motor
\* is not moving, the map shows the target as current position, and the
\* moving bit is set
C23_Divergence ==
    /\ IterationEnd
    /\ ~motor_state[0].moving
    /\ motor_state[0].target_pos = 1
    /\ CurrentPosRegister(0) = motor_state[0].target_pos
    /\ MovingBit(0)

\* this step is a call of update_switch_status_registers
SwitchCall == pc = "switch" /\ pc' = "motor_status"
\* the call changes the debounced state of switch k
DebouncedChanges(k) ==
    switch_state'[k].debounced_state # switch_state[k].debounced_state
\* the levels gpio_get returned for switch k have been equal since a reading
\* more than DEBOUNCE_DELAY_US before the one of this call, and the
\* debounced state is that level now
StayedAtNewLevel(k) ==
    /\ switch_state'[k].debounced_state = log'.level[k]
    /\ Sub32(now', log'.since[k]) > DEBOUNCE_DELAY_US

(***************************************************************************)
(* C24.  update_switch_status_registers changes the register map only in   *)
(* an invocation in which the debounced state of at least one switch       *)
(* changes; it then writes only REG_SWITCH_STATUS, with bit 0 set iff      *)
(* switch 1's debounced level is low and bit 1 set iff switch 2's is low;  *)
(* in every other invocation the whole map is unchanged.  A debounced      *)
(* state changes only after the raw reading has stayed at the new level    *)
(* for more than DEBOUNCE_DELAY_US.                                        *)
(***************************************************************************)
C24_SwitchStatusOnDebouncedChange ==
    [][SwitchCall =>
         /\ (\E k \in 0..1 : DebouncedChanges(k)) =>
              /\ \A a \in RegAddrs \ {REG_SWITCH_STATUS} :
                     registers'[a] = registers[a]
              /\ \A k \in 0..1 :
                     BitIsSet(registers'[REG_SWITCH_STATUS], k)
                       <=> ~switch_state'[k].debounced_state
         /\ ~(\E k \in 0..1 : DebouncedChanges(k)) => registers' = registers
         /\ \A k \in 0..1 : DebouncedChanges(k) => StayedAtNewLevel(k)]_vars

\* switch 2 was released at boot and is debounced as pressed just over the
\* delay after it was first read low; switch 1 has moved in between and is
\* still debounced as released
C24_Witness ==
    /\ pc = "motor_status"
    /\ ~switch_state[1].debounced_state
    /\ switch_state[0].debounced_state
    /\ registers[REG_SWITCH_STATUS] = 2
    /\ host.pins = 2
    /\ now - log.since[1] = DEBOUNCE_DELAY_US + 1
    /\ log.since[0] > log.since[1]

\* motor m has left the moving state and the map shows T as its position
ArrivedAt(m, T) == ~motor_state[m].moving /\ CurrentPosRegister(m) = T
\* this step is a call of update_motor_status_registers
StatusCall == pc = "motor_status" /\ pc' = "uart"
\* the distance of motor m from its target
Distance(st) ==
    IF st.current_pos < st.target_pos
    THEN st.target_pos - st.current_pos ELSE st.current_pos - st.target_pos
\* the call moves motor m by exactly one step, toward its target
OneStepCloser(m) ==
    /\ Distance(motor_state'[m]) = Distance(motor_state[m]) - 1
    /\ motor_state'[m].current_pos \in
         {motor_state[m].current_pos - 1, motor_state[m].current_pos + 1}
    /\ motor_state'[m].target_pos = motor_state[m].target_pos
\* motor m is moving to target T
MovingTo(m, T) == motor_state[m].moving /\ motor_state[m].target_pos = T
\* the host has written a start or stop bit for motor m that the consumer
\* has not processed yet
CommandPending(m) == registers[MotorRegs(m).ctl] % 4 # 0
\* a move to target T ends with the map showing T, unless the host commands
\* the motor again
MoveEnds ==
    \A m \in 0..1 : \A T \in MoveTargets :
        MovingTo(m, T) ~> (ArrivedAt(m, T) \/ CommandPending(m))
\* a call of update_motor_status_registers that ends the move of motor m
\* leaves the commanded target as the position the map shows
EndsAtTarget(m) ==
    StatusCall /\ motor_state[m].moving /\ ~motor_state'[m].moving =>
        /\ motor_state'[m].target_pos = motor_state[m].target_pos
        /\ READ_U32_REGISTER(registers', MotorRegs(m).cur)
             = motor_state[m].target_pos
\* only update_motor_control_from_registers, on a stop bit, ends a move
\* otherwise, and only it, on a start bit, changes the target
OnlyCommandsInterfere(m) ==
    ~StatusCall /\ (\/ motor_state[m].moving /\ ~motor_state'[m].moving
                    \/ motor_state'[m].target_pos # motor_state[m].target_pos)
        => /\ pc = "motor_ctl"
           /\ registers[MotorRegs(m).ctl] % 4 # 0

LaterInvocation == pc = "uart" /\ log.looped
\* the four cells of motor m's current-position field
CurrentPosCells(m) ==
    LET a == MotorRegs(m).cur
    IN  <<registers[a], registers[a + 1], registers[a + 2], registers[a + 3]>>

(***************************************************************************)
(* C26.  At every invocation of handle_uart_rx after the first main-loop   *)
(* iteration, the four bytes at REG_MOTOR1_CURRENT_POS_L and at            *)
(* REG_MOTOR2_CURRENT_POS_L are the little-endian encoding of the motor's  *)
(* internal current position and bit 0 (ready) of REG_STATUS is set,       *)
(* whatever the host has written to those addresses before.                *)
(***************************************************************************)
C26_StatusFieldsRefreshed ==
    LaterInvocation =>
        /\ \A m \in 0..1 :
               LET c == CurrentPosCells(m)
               IN  IsLittleEndian32(c[1], c[2], c[3], c[4],
                                    motor_state[m].current_pos)
        /\ BitIsSet(registers[REG_STATUS], 0)

\* the last request was an accepted write that put 9 into the first cell of
\* motor 1's current position; the motor has since moved to 1, and the cell
\* shows it
C26_Witness ==
    /\ LaterInvocation
    /\ prev.accepted
    /\ prev.cmd = CMD_WRITE
    /\ prev.addr = REG_MOTOR1_CONTROL
    /\ prev.len = 6
    /\ prev.data[6] = 9
    /\ motor_state[0].current_pos = 1
    /\ registers[REG_MOTOR1_CURRENT_POS_L] = 1

\* switch k's bit of REG_SWITCH_STATUS in the map
PressedBit(k) == BitIsSet(registers[REG_SWITCH_STATUS], k)
\* switch k's debounced state is pressed: the level is low
DebouncedPressed(k) == ~switch_state[k].debounced_state

(***************************************************************************)
(* C27 as claimed.  At every invocation of handle_uart_rx, bit 0 of        *)
(* REG_SWITCH_STATUS is set if and only if switch 1's debounced state is   *)
(* pressed and bit 1 if and only if switch 2's is, from boot onward, also  *)
(* when a switch is pressed during init_switches, and after any host write *)
(* to REG_SWITCH_STATUS.                                                   *)
(***************************************************************************)
C27_AsClaimed ==
    pc = "uart" => \A k \in 0..1 : PressedBit(k) <=> DebouncedPressed(k)

\* switch 1 was pressed at boot and nothing has happened since: its
\* debounced state is pressed and REG_SWITCH_STATUS is 0
C27_DivergenceAtBoot ==
    /\ pc = "uart"
    /\ ~log.looped
    /\ host.frames = 0
    /\ host.pins = 0
    /\ DebouncedPressed(0)
    /\ ~PressedBit(0)

\* every byte the host has put on the line, in order
Stream == Flatten(log.frames)
\* the address byte of the request header that began at stream offset at
RequestAddr(at) == Stream[at + 2]
\* r has the shape of a read response: [addr, len, data..., c], len <= 16
ReadResponseShape(r) ==
    /\ Len(r) >= 3
    /\ r[2] <= MAX_PAYLOAD
    /\ Len(r) = 3 + r[2]
\* r has the shape of a write response: [addr, s, c], s the ACK or NACK code
WriteResponseShape(r) ==
    /\ Len(r) = 3
    /\ r[2] \in {ACK_CODE, NACK_CODE}

(***************************************************************************)
(* C28.  Every response the engine emits is well formed: it is either a    *)
(* read response of exactly 3 + len bytes [addr, len, data..., c] with     *)
(* len <= 16, or a write response of exactly 3 bytes [addr, s, c] with s   *)
(* 0x00 or 0xFF; addr is the address byte of the request being answered    *)
(* and the XOR of all bytes of the response, checksum included, is 0.      *)
(* What the engine has put on the line is these responses, one after the   *)
(* other.                                                                  *)
(***************************************************************************)
C28_ResponsesWellFormed ==
    /\ tx = Flatten(log.answers)
    /\ \A k \in 1..Len(log.answers) :
         LET r == log.answers[k].bytes
         IN  /\ \A j \in 1..Len(r) : r[j] \in Byte
             /\ ReadResponseShape(r) \/ WriteResponseShape(r)
             /\ r[1] = RequestAddr(log.answers[k].at)
             /\ XorOfAll(r) = 0

\* the engine has answered a read with four data bytes and then a write
\* with a NACK
C28_Witness ==
    /\ Len(log.answers) = 2
    /\ Len(log.answers[1].bytes) = 7
    /\ log.answers[1].bytes[2] = 4
    /\ Len(log.answers[2].bytes) = 3
    /\ log.answers[2].bytes[2] = NACK_CODE
    /\ log.answers[2].at > 0

=============================================================================
